---- MODULE Spec2Model ----
(***************************************************************************)
(* Alert arbitration of the desktop fatigue monitor.                       *)
(*                                                                         *)
(* AlertManager (src/src/alert/alert_manager.py) keeps one dictionary,     *)
(* last_alert_time, from alert category to the time of its last firing,    *)
(* and one lock.  The frame pipelines (src/main.py, src/app.py) call       *)
(* trigger_alert from _check_and_trigger_alerts once per processed frame.  *)
(*                                                                         *)
(* Time is a discrete clock `now`; cooldown_time is Cooldown clock units.  *)
(* A `with self.lock:` block is one atomic step: nothing else in the       *)
(* program touches last_alert_time outside such a block.  SpecDispatch     *)
(* takes the same code with the entry of each block as its own step and    *)
(* follows the sink threads; SpecWeb serves two /video_feed requests.      *)
(*                                                                         *)
(* FatigueAnalyzer (src/src/analysis/fatigue_analyzer.py) is the second    *)
(* part: blink accounting, the PERCLOS window, the closed-eye timer and    *)
(* the fatigue level, one step per update call (SpecFatigue).              *)
(*                                                                         *)
(* DistanceMonitor and PostureMonitor (src/src/analysis) follow, one step  *)
(* per update call (SpecDistance, SpecPosture), and the construction of    *)
(* the system from the file ConfigLoader read (SpecConstruction).          *)
(*                                                                         *)
(* SpecRegister registers the sinks of a manager built without any while   *)
(* the pipeline runs; SpecSystem is the frame loop as a whole: each frame  *)
(* with a face updates the three trackers and starts the alert cycle on    *)
(* their results, each frame without one touches nothing.                  *)
(***************************************************************************)
EXTENDS Integers, Sequences, FiniteSets, TLC

\* ---------------------------------------------------------------- bounds
MaxTime == 2        \* the clock runs over 0..MaxTime
Cooldown == 2       \* cooldown_time, in clock units

\* ------------------------------------------------------------- constants
AlertType == {"fatigue", "distance", "posture", "severe"}

\* The three sinks AlertManager can hold, and the buzzer app.py drives itself.
ManagerSinks == {"voice", "led", "gui"}
Buzzer == "buzzer"

\* Caller threads: the frame loop of main.py, or one generate_frames
\* generator per connected /video_feed client in app.py.
Threads == {"t1", "t2"}
PipelineThread == "t1"

FatigueLevels == 0 .. 3

VARIABLES
    mode,             \* "desktop" (main.py) or "web" (app.py)
    enable_voice,     \* AlertManager.enable_voice
    voice_alert,      \* a voice sink is registered
    led_alert,        \* a LED sink is registered
    gui_alert,        \* a GUI/Web sink is registered
    now,              \* time.time()
    last_alert_time,  \* dict: a function whose domain is the recorded categories
    pc,               \* per thread: "idle", "call", "can_alert", "record"
    status,           \* per thread: the status snapshot of the frame being handled
    alert_type,       \* per thread: argument of the trigger_alert call in progress
    current_time,     \* per thread: can_alert's local current_time
    out,              \* what the last step emitted: sink threads started,
                      \* {<<sink, category>>}, and reset_cooldown's console line
    workers,          \* sink threads in flight, {<<sink, category>>}
    lock,             \* AlertManager.lock: its holder, or Free
    \* FatigueAnalyzer (src/src/analysis/fatigue_analyzer.py)
    timestamp,        \* the timestamp of the latest update, in seconds
    frames,           \* number of update calls so far
    left_ear, right_ear, avg_ear,    \* in hundredths
    blink_counter, is_blinking, last_blink_time, blinks_per_minute,
    eye_state_history,               \* deque(maxlen): a sequence of 1 (closed) / 0
    perclos_value,                   \* a fraction [num, den]
    eye_closed_start, eye_closed_duration, is_drowsy,
    fatigue_level,
    \* history variables, read only by the properties
    period_start,        \* construction time, then the time of the last publish
    run_start,           \* timestamp of the first frame of the current closed run
    counter_before_run,  \* blink_counter just before the latest closed run began
    \* DistanceMonitor (src/src/analysis/distance_monitor.py), distances in
    \* tenths of a centimetre
    distance_timestamp,  \* the timestamp of the latest update, in seconds
    distance_frames,     \* number of update calls so far
    distance,            \* update's local `distance`: the raw sample of that call
    distance_history,    \* list of the valid samples, oldest first
    current_distance,    \* a fraction [num, den]
    too_close_start, too_close_duration, is_too_close,
    \* history variables, read only by the properties
    measured_eye_pixels, \* the pixel distance the latest update gave to
                         \* calculate_distance_by_eye_distance, None if it did not
    measured_face_width, \* the width the latest update gave to
                         \* calculate_distance_by_face_width, None if it did not
    evicted,             \* the sample the latest update popped, None if it did not
    close_since,         \* timestamp of the first update of the current unbroken
                         \* run of close updates
    \* PostureMonitor (src/src/analysis/posture_monitor.py), angles in degrees
    posture_timestamp,   \* the timestamp of the latest update, in seconds
    posture_frames,      \* number of update calls so far
    pitch, yaw, roll,
    bad_posture_start, bad_posture_duration, is_bad_posture, posture_type,
    solved,              \* history variable: the latest update solved the pose
    bad_since,           \* history variable: timestamp of the first solved frame
                         \* of the current run of non-Normal solved frames
    \* FatigueMonitorSystem.__init__ (src/main.py)
    yaml,                \* what ConfigLoader read: key -> value, keys may be absent
    phase,               \* "loaded", "failed", "constructed", "processing"
    frame_counter,       \* FatigueMonitorSystem.frame_counter
    \* history variables, read only by the properties
    detected_history,    \* `detected` of the last two frames of the loop
    first_sink_time      \* the clock when trigger_alert first had a sink to start
                         \* (an enabled voice sink or a GUI sink), None before

\* AlertManager and its callers
alerts == << mode, enable_voice, voice_alert, led_alert, gui_alert, now,
             last_alert_time, pc, status, alert_type, current_time, out >>

\* the sink threads and the lock, where a specification follows them
dispatch == << workers, lock >>

\* FatigueAnalyzer
analyzer == << timestamp, frames, left_ear, right_ear, avg_ear,
               blink_counter, is_blinking, last_blink_time, blinks_per_minute,
               eye_state_history, perclos_value,
               eye_closed_start, eye_closed_duration, is_drowsy, fatigue_level,
               period_start, run_start, counter_before_run >>

\* DistanceMonitor
distance_monitor == << distance_timestamp, distance_frames, distance,
                       distance_history, current_distance, too_close_start,
                       too_close_duration, is_too_close,
                       measured_eye_pixels, measured_face_width, evicted,
                       close_since >>

\* PostureMonitor
posture_monitor == << posture_timestamp, posture_frames, pitch, yaw, roll,
                      bad_posture_start, bad_posture_duration, is_bad_posture,
                      posture_type, solved, bad_since >>

\* the construction of the system
construction == << yaml, phase >>

\* the frame loop
loop == << frame_counter, detected_history >>

\* what the alert manager and the fatigue analyzer never touch
monitors == << distance_monitor, posture_monitor, construction,
              loop, first_sink_time >>

vars == << alerts, dispatch, analyzer, monitors >>

config == << mode, enable_voice, voice_alert, led_alert, gui_alert >>

NoCall == "none"

EmptyDict == [c \in {} |-> 0]

InitialStatus ==
    [fatigue_level |-> 0, is_too_close |-> FALSE, is_bad_posture |-> FALSE]

\* ------------------------------------------------------------ AlertManager

\* A bug can_alert could have: a strict comparison.
CanAlertStrict(c, ct) ==
    IF c \notin DOMAIN last_alert_time
    THEN TRUE
    ELSE ct - last_alert_time[c] > Cooldown

\* A bug can_alert could have: one cooldown shared by all categories.
CanAlertShared(c, ct) ==
    \A d \in DOMAIN last_alert_time : ct - last_alert_time[d] >= Cooldown

\* can_alert, the body of its `with self.lock:` block.
CanAlert(c, ct) ==
    IF c \notin DOMAIN last_alert_time
    THEN TRUE
    ELSE ct - last_alert_time[c] >= Cooldown

\* A bug the write could have: the dictionary rebuilt from the one entry.
RecordTimeLossy(c) == [x \in {c} |-> now]

\* self.last_alert_time[alert_type] = time.time()
RecordTime(c) ==
    [x \in (DOMAIN last_alert_time) \cup {c} |->
        IF x = c THEN now ELSE last_alert_time[x]]

\* The sink threads trigger_alert starts after recording.
StartSinks(c) ==
    (IF enable_voice /\ voice_alert THEN {<<"voice", c>>} ELSE {})
    \cup (IF gui_alert THEN {<<"gui", c>>} ELSE {})

\* A bug reset_cooldown could have: every reset clears the whole dictionary.
ResetCooldownAll(arg) == EmptyDict

\* reset_cooldown(alert_type); None clears the dictionary.
ResetCooldownDict(arg) ==
    IF arg = NoCall
    THEN EmptyDict
    ELSE IF arg \in DOMAIN last_alert_time
         THEN [x \in (DOMAIN last_alert_time) \ {arg} |-> last_alert_time[x]]
         ELSE last_alert_time

\* ---------------------------------------------------------------- pipelines

\* A bug the pipeline could have: no return after the severe-fatigue call.
NextCallNoReturn(st, after) ==
    IF after = "start" /\ st.fatigue_level = 3 THEN "severe"
    ELSE IF after \in {"start", "severe"} /\ st.fatigue_level >= 1 THEN "fatigue"
    ELSE IF after \in {"start", "severe", "fatigue"} /\ st.is_too_close
         THEN "distance"
    ELSE IF after \in {"start", "severe", "fatigue", "distance"}
            /\ st.is_bad_posture
         THEN "posture"
    ELSE NoCall

\* A bug the pipeline could have: the severe-fatigue call replaces only the
\* fatigue call, and the distance and posture checks still follow it.
NextCallSevereThenOthers(st, after) ==
    IF after = "start" /\ st.fatigue_level = 3 THEN "severe"
    ELSE IF after = "start" /\ st.fatigue_level >= 1 THEN "fatigue"
    ELSE IF after \in {"start", "severe", "fatigue"} /\ st.is_too_close
         THEN "distance"
    ELSE IF after \in {"start", "severe", "fatigue", "distance"}
            /\ st.is_bad_posture
         THEN "posture"
    ELSE NoCall

\* _check_and_trigger_alerts: the category of the trigger_alert call that follows
\* position `after` ("start", or the category just attempted), or NoCall.
NextCall(st, after) ==
    IF after = "start" /\ st.fatigue_level = 3 THEN "severe"
    ELSE IF after = "severe" THEN NoCall
    ELSE IF after = "start" /\ st.fatigue_level >= 1 THEN "fatigue"
    ELSE IF after \in {"start", "fatigue"} /\ st.is_too_close THEN "distance"
    ELSE IF after \in {"start", "fatigue", "distance"} /\ st.is_bad_posture
         THEN "posture"
    ELSE NoCall

\* app.py starts a buzzer thread after each trigger_alert call; main.py has none.
BuzzerStart(c) == IF mode = "web" THEN {<<Buzzer, c>>} ELSE {}

\* Return from trigger_alert to the caller, which goes on to its next call; the
\* status snapshot is local to the frame and ends with its last call.
Return(t) ==
    LET next == NextCall(status[t], alert_type[t]) IN
    /\ pc' = [pc EXCEPT ![t] = IF next = NoCall THEN "idle" ELSE "call"]
    /\ alert_type' = [alert_type EXCEPT ![t] = next]
    /\ status' = [status EXCEPT ![t] = IF next = NoCall THEN InitialStatus ELSE @]

\* ---------------------------------------------------------- FatigueAnalyzer
\* Timestamps are whole seconds, EAR values are hundredths, and perclos_value
\* is the exact fraction closed / total that the float division rounds.

PerclosWindow == 3      \* perclos_window, in seconds
MaxFrames == 7          \* update calls in one run of the model

\* maxlen of eye_state_history.  The code keeps 30 entries per second of window
\* (perclos_window * 30); the model keeps 2, so the capacity stays even.
WindowCapacity == PerclosWindow * 2

EarThreshold == 25      \* ear_threshold = 0.25
ClosedEyeDuration == 2  \* closed_eye_duration = 2.0 s
PerclosThreshold == 15  \* perclos_threshold = 0.15, in percent
BlinkMin == 1           \* blink_min (10 in the shipped configuration)
BlinkMax == 2           \* blink_max (30 in the shipped configuration)
BlinkPeriod == 60       \* the 60 of `timestamp - self.last_blink_time > 60`
SeverePerclos == 20     \* the 0.20 of _calculate_fatigue_level, in percent
MildPerclos == 10       \* the 0.10 of _calculate_fatigue_level, in percent
ShortClosure == 1       \* the 1.0 s of _calculate_fatigue_level

\* calculate_ear results fed to update: the degenerate 0.0, a closed eye, an
\* open eye.  All even, so that (left + right) / 2.0 is a whole number.
EarValues == {0, 20, 30}

\* Seconds between one update and the next: the next tick of the clock, or
\* BlinkPeriod later.
Deltas == {1, 60}

None == -1

Zero == [num |-> 0, den |-> 1]

RECURSIVE Sum(_)
Sum(h) == IF h = << >> THEN 0 ELSE Head(h) + Sum(Tail(h))

\* is_closed = self.avg_ear < self.ear_threshold
IsClosed(ear) == ear < EarThreshold

\* A bug the blink accounting could have: the rate is published only on a frame
\* that starts a blink, so it goes stale when blinking stops.
UpdateBlinkDetectionOnBlink(is_closed, ts) ==
    LET starts  == is_closed /\ ~is_blinking
        publish == starts /\ ts - last_blink_time > BlinkPeriod
    IN  [is_blinking       |-> is_closed,
         blink_counter     |-> IF publish THEN 0
                               ELSE IF starts THEN blink_counter + 1
                               ELSE blink_counter,
         last_blink_time   |-> IF starts THEN ts ELSE last_blink_time,
         blinks_per_minute |-> IF publish THEN blink_counter + 1
                               ELSE blinks_per_minute,
         published         |-> publish]

\* A bug the blink detection could have: every closed frame counts as a blink.
UpdateBlinkDetectionEveryFrame(is_closed, ts) ==
    LET counter == IF is_closed THEN blink_counter + 1 ELSE blink_counter
        anchor  == IF is_closed THEN ts ELSE last_blink_time
        publish == ts - anchor > BlinkPeriod
    IN  [is_blinking       |-> is_closed,
         blink_counter     |-> IF publish THEN 0 ELSE counter,
         last_blink_time   |-> IF publish THEN ts ELSE anchor,
         blinks_per_minute |-> IF publish THEN counter ELSE blinks_per_minute,
         published         |-> publish]

\* A bug the blink accounting could have: a blink is counted but does not move
\* last_blink_time, which then is the start of a fixed accounting period.
UpdateBlinkDetectionFixedPeriod(is_closed, ts) ==
    LET starts   == is_closed /\ ~is_blinking
        stops    == ~is_closed /\ is_blinking
        blinking == IF starts THEN TRUE ELSE IF stops THEN FALSE ELSE is_blinking
        counter  == IF starts THEN blink_counter + 1 ELSE blink_counter
        publish  == ts - last_blink_time > BlinkPeriod
    IN  [is_blinking       |-> blinking,
         blink_counter     |-> IF publish THEN 0 ELSE counter,
         last_blink_time   |-> IF publish THEN ts ELSE last_blink_time,
         blinks_per_minute |-> IF publish THEN counter ELSE blinks_per_minute,
         published         |-> publish]

\* A bug the blink accounting could have: the closed-to-open transition does not
\* clear is_blinking.
UpdateBlinkDetectionNeverClears(is_closed, ts) ==
    LET starts   == is_closed /\ ~is_blinking
        blinking == IF starts THEN TRUE ELSE is_blinking
        counter  == IF starts THEN blink_counter + 1 ELSE blink_counter
        anchor   == IF starts THEN ts ELSE last_blink_time
        publish  == ts - anchor > BlinkPeriod
    IN  [is_blinking       |-> blinking,
         blink_counter     |-> IF publish THEN 0 ELSE counter,
         last_blink_time   |-> IF publish THEN ts ELSE anchor,
         blinks_per_minute |-> IF publish THEN counter ELSE blinks_per_minute,
         published         |-> publish]

\* _update_blink_detection: the fields it leaves behind, and whether it published.
UpdateBlinkDetection(is_closed, ts) ==
    LET starts   == is_closed /\ ~is_blinking
        stops    == ~is_closed /\ is_blinking
        blinking == IF starts THEN TRUE ELSE IF stops THEN FALSE ELSE is_blinking
        counter  == IF starts THEN blink_counter + 1 ELSE blink_counter
        anchor   == IF starts THEN ts ELSE last_blink_time
        publish  == ts - anchor > BlinkPeriod
    IN  [is_blinking       |-> blinking,
         blink_counter     |-> IF publish THEN 0 ELSE counter,
         last_blink_time   |-> IF publish THEN ts ELSE anchor,
         blinks_per_minute |-> IF publish THEN counter ELSE blinks_per_minute,
         published         |-> publish]

\* A bug the window could have: the newest entry is dropped when it is full.
DequeAppendDropNewest(h, x) ==
    IF Len(h) >= WindowCapacity THEN h ELSE Append(h, x)

\* deque.append on a deque with maxlen: a full deque drops its oldest entry.
DequeAppend(h, x) ==
    LET appended == Append(h, x) IN
    IF Len(appended) > WindowCapacity THEN Tail(appended) ELSE appended

\* A bug _update_perclos could have: the ratio is taken before the append.
UpdatePerclosStale(is_closed) ==
    [history |-> DequeAppend(eye_state_history, IF is_closed THEN 1 ELSE 0),
     perclos |-> IF Len(eye_state_history) > 0
                 THEN [num |-> Sum(eye_state_history),
                       den |-> Len(eye_state_history)]
                 ELSE Zero]

\* _update_perclos
UpdatePerclos(is_closed) ==
    LET h == DequeAppend(eye_state_history, IF is_closed THEN 1 ELSE 0) IN
    [history |-> h,
     perclos |-> IF Len(h) > 0 THEN [num |-> Sum(h), den |-> Len(h)]
                 ELSE Zero]

\* A bug the drowsiness test could have: a closure of exactly
\* closed_eye_duration counts.
UpdateClosedEyeDurationAtLeast(is_closed, ts) ==
    IF is_closed
    THEN LET start    == IF eye_closed_start = None THEN ts ELSE eye_closed_start
             duration == IF eye_closed_start = None THEN 0 ELSE ts - eye_closed_start
         IN  [eye_closed_start    |-> start,
              eye_closed_duration |-> duration,
              is_drowsy           |-> duration >= ClosedEyeDuration]
    ELSE [eye_closed_start |-> None, eye_closed_duration |-> 0, is_drowsy |-> FALSE]

\* A bug the open branch could have: the drowsy flag outlives the closure.
UpdateClosedEyeDurationKeepsFlag(is_closed, ts) ==
    IF is_closed
    THEN LET start    == IF eye_closed_start = None THEN ts ELSE eye_closed_start
             duration == IF eye_closed_start = None THEN 0 ELSE ts - eye_closed_start
         IN  [eye_closed_start    |-> start,
              eye_closed_duration |-> duration,
              is_drowsy           |-> duration > ClosedEyeDuration]
    ELSE [eye_closed_start |-> None, eye_closed_duration |-> 0,
          is_drowsy |-> is_drowsy]

\* _update_closed_eye_duration
UpdateClosedEyeDuration(is_closed, ts) ==
    IF is_closed
    THEN LET start    == IF eye_closed_start = None THEN ts ELSE eye_closed_start
             duration == IF eye_closed_start = None THEN 0 ELSE ts - eye_closed_start
         IN  [eye_closed_start    |-> start,
              eye_closed_duration |-> duration,
              is_drowsy           |-> duration > ClosedEyeDuration]
    ELSE [eye_closed_start |-> None, eye_closed_duration |-> 0, is_drowsy |-> FALSE]

\* perclos > pct / 100, on the exact fraction
Above(perclos, pct) == perclos.num * 100 > pct * perclos.den

\* A bug the first rule could have: a high PERCLOS counts only with drowsiness.
CalculateFatigueLevelBoth(perclos, drowsy, duration, bpm) ==
    IF Above(perclos, SeverePerclos) /\ drowsy THEN 3
    ELSE IF Above(perclos, PerclosThreshold) \/ duration > ShortClosure THEN 2
    ELSE IF Above(perclos, MildPerclos) \/ bpm < BlinkMin \/ bpm > BlinkMax THEN 1
    ELSE 0

\* A bug _calculate_fatigue_level could have: a blink rate below blink_min
\* does not count as a sign of fatigue.
CalculateFatigueLevelNoBlinkFloor(perclos, drowsy, duration, bpm) ==
    IF Above(perclos, SeverePerclos) \/ drowsy THEN 3
    ELSE IF Above(perclos, PerclosThreshold) \/ duration > ShortClosure THEN 2
    ELSE IF Above(perclos, MildPerclos) \/ bpm > BlinkMax THEN 1
    ELSE 0

\* _calculate_fatigue_level, on the fields just updated
CalculateFatigueLevel(perclos, drowsy, duration, bpm) ==
    IF Above(perclos, SeverePerclos) \/ drowsy THEN 3
    ELSE IF Above(perclos, PerclosThreshold) \/ duration > ShortClosure THEN 2
    ELSE IF Above(perclos, MildPerclos) \/ bpm < BlinkMin \/ bpm > BlinkMax THEN 1
    ELSE 0

\* FatigueAnalyzer.__init__, constructed at time 0.
InitAnalyzer ==
    /\ timestamp = 0
    /\ frames = 0
    /\ left_ear = 0
    /\ right_ear = 0
    /\ avg_ear = 0
    /\ blink_counter = 0
    /\ is_blinking = FALSE
    /\ last_blink_time = 0
    /\ blinks_per_minute = 0
    /\ eye_state_history = << >>
    /\ perclos_value = Zero
    /\ eye_closed_start = None
    /\ eye_closed_duration = 0
    /\ is_drowsy = FALSE
    /\ fatigue_level = 0
    /\ period_start = 0
    /\ run_start = None
    /\ counter_before_run = 0

\* ---------------------------------------------------------- DistanceMonitor
\* Lengths are in tenths of a centimetre and pixel lengths in whole pixels; the
\* pixel lengths the frames take divide the products below exactly, as 60 px
\* does in floating point (6.3 * 600.0 / 60.0 = 63.0).

DistanceWarningDuration == 2  \* warning_duration, in seconds (30 by default)
MaxDistanceTime == 12         \* the seconds followed

WarningDistance == 500        \* warning_distance, 50.0 cm
KnownFaceWidth == 145         \* known_face_width, 14.5 cm
FocalLength == 600            \* focal_length, in pixels
KnownEyeDistance == 63        \* known_eye_distance, 6.3 cm
HistoryMaxLen == 10           \* history_max_len

\* np.linalg.norm of the two eye centres, or None when update is not given both
\* eye landmark sets: 60 px is 63.0 cm away
EyePixelDistances == {None, 0, 60}

\* face_box_width, or None: 290 px is 30.0 cm away
FaceBoxWidths == {None, 0, 290}

\* seconds between two update calls
DistanceDeltas == {1, 2}

\* calculate_distance_by_face_width
CalculateDistanceByFaceWidth(face_width_pixels) ==
    IF face_width_pixels = 0
    THEN 0
    ELSE (KnownFaceWidth * FocalLength) \div face_width_pixels

\* A bug the eye-distance estimate could have: the face width as the known length.
CalculateDistanceByEyeDistanceFaceWidth(eye_distance_pixels) ==
    IF eye_distance_pixels = 0
    THEN 0
    ELSE (KnownFaceWidth * FocalLength) \div eye_distance_pixels

\* calculate_distance_by_eye_distance, known_eye_distance at its default
CalculateDistanceByEyeDistance(eye_distance_pixels) ==
    IF eye_distance_pixels = 0
    THEN 0
    ELSE (KnownEyeDistance * FocalLength) \div eye_distance_pixels

\* update, the elif of the choice of the method: the face-width method runs
FaceWidthMethod(use_eye_distance, eye_pixels, face_box_width) ==
    /\ ~(use_eye_distance /\ eye_pixels # None)
    /\ face_box_width # None
    /\ face_box_width > 0

\* A bug the choice could have: an eye-distance result of 0 falls back to the
\* face-width method.
RawDistanceFallsBack(use_eye_distance, eye_pixels, face_box_width) ==
    IF use_eye_distance /\ eye_pixels # None
          /\ CalculateDistanceByEyeDistance(eye_pixels) > 0
    THEN CalculateDistanceByEyeDistance(eye_pixels)
    ELSE IF face_box_width # None /\ face_box_width > 0
         THEN CalculateDistanceByFaceWidth(face_box_width)
         ELSE 0

\* update, the choice of the method: the raw sample of this call
RawDistance(use_eye_distance, eye_pixels, face_box_width) ==
    IF use_eye_distance /\ eye_pixels # None
    THEN CalculateDistanceByEyeDistance(eye_pixels)
    ELSE IF face_box_width # None /\ face_box_width > 0
         THEN CalculateDistanceByFaceWidth(face_box_width)
         ELSE 0

\* np.mean of a non-empty list
Mean(h) == [num |-> Sum(h), den |-> Len(h)]

\* A bug the smoothing could have: a full history evicts its newest sample.
SmoothDistanceEvictNewest(d) ==
    IF d > 0
    THEN LET h == IF Len(distance_history) >= HistoryMaxLen
                  THEN SubSeq(distance_history, 1, HistoryMaxLen - 1) \o << d >>
                  ELSE Append(distance_history, d)
         IN  [history |-> h, current |-> Mean(h)]
    ELSE [history |-> distance_history, current |-> Zero]

\* What the smoothing could do instead: an invalid sample leaves the published
\* mean where it was.
SmoothDistanceHoldsMean(d) ==
    IF d > 0
    THEN LET appended == Append(distance_history, d)
             h        == IF Len(appended) > HistoryMaxLen
                         THEN Tail(appended)
                         ELSE appended
         IN  [history |-> h, current |-> Mean(h)]
    ELSE [history |-> distance_history, current |-> current_distance]

\* update, the smoothing: a valid sample enters the history, the oldest leaves a
\* history of more than history_max_len, and the mean is published; any other
\* sample leaves the history alone and publishes 0.0
SmoothDistance(d) ==
    IF d > 0
    THEN LET appended == Append(distance_history, d)
             h        == IF Len(appended) > HistoryMaxLen
                         THEN Tail(appended)
                         ELSE appended
         IN  [history |-> h, current |-> Mean(h)]
    ELSE [history |-> distance_history, current |-> Zero]

\* is_currently_close = current_distance > 0 and current_distance < warning_distance
IsCurrentlyClose(d) == d.num > 0 /\ d.num < WarningDistance * d.den

\* A bug the too-close timer could have: a far frame clears the flag and the
\* duration but leaves the start where it was.
UpdateTooCloseKeepsStart(is_currently_close, ts) ==
    IF is_currently_close
    THEN LET start    == IF too_close_start = None THEN ts ELSE too_close_start
             duration == IF too_close_start = None THEN 0 ELSE ts - too_close_start
         IN  [too_close_start    |-> start,
              too_close_duration |-> duration,
              is_too_close       |-> duration >= DistanceWarningDuration]
    ELSE [too_close_start    |-> too_close_start,
          too_close_duration |-> 0,
          is_too_close       |-> FALSE]

\* update, the too-close timer
UpdateTooClose(is_currently_close, ts) ==
    IF is_currently_close
    THEN LET start    == IF too_close_start = None THEN ts ELSE too_close_start
             duration == IF too_close_start = None THEN 0 ELSE ts - too_close_start
         IN  [too_close_start    |-> start,
              too_close_duration |-> duration,
              is_too_close       |-> duration >= DistanceWarningDuration]
    ELSE [too_close_start    |-> None,
          too_close_duration |-> 0,
          is_too_close       |-> FALSE]

\* DistanceMonitor.__init__, constructed at time 0.
InitDistance ==
    /\ distance_timestamp = 0
    /\ distance_frames = 0
    /\ distance = 0
    /\ distance_history = << >>
    /\ current_distance = Zero
    /\ too_close_start = None
    /\ too_close_duration = 0
    /\ is_too_close = FALSE
    /\ measured_eye_pixels = None
    /\ measured_face_width = None
    /\ evicted = None
    /\ close_since = None

\* ----------------------------------------------------------- PostureMonitor
\* Angles are whole degrees: update compares the pitch with the two thresholds
\* and nothing else.

PostureWarningDuration == 2   \* warning_duration, in seconds (60 by default)
MaxPostureFrames == 5         \* the update calls followed

PitchThresholdDown == 12      \* pitch_threshold_down, 12.0 degrees
PitchThresholdUp == -8        \* pitch_threshold_up, -8.0 degrees

\* the pitch rotation_vector_to_euler_angles returns: beyond, on and between the
\* two thresholds
PitchValues == {-9, -8, 0, 12, 13}

\* the yaw and the roll it returns
AngleValues == {0, 15}

\* seconds between two update calls
PostureDeltas == {1, 2}

\* update, step 3: the posture type of a solved frame
ClassifyPosture(p) ==
    IF p > PitchThresholdDown THEN "Head Down"
    ELSE IF p < PitchThresholdUp THEN "Head Up"
    ELSE "Normal"

\* A bug the bad-posture timer could have: a change of the posture type, Head
\* Down to Head Up or back, starts the timer again.
UpdateBadPostureRestartsOnChange(type, ts) ==
    IF type # "Normal"
    THEN LET fresh    == bad_posture_start = None
                         \/ (posture_type \in {"Head Down", "Head Up"}
                             /\ posture_type # type)
             start    == IF fresh THEN ts ELSE bad_posture_start
             duration == IF fresh THEN 0 ELSE ts - bad_posture_start
         IN  [bad_posture_start    |-> start,
              bad_posture_duration |-> duration,
              is_bad_posture       |-> duration >= PostureWarningDuration]
    ELSE [bad_posture_start    |-> None,
          bad_posture_duration |-> 0,
          is_bad_posture       |-> FALSE]

\* update, step 4: the bad-posture timer of a solved frame
UpdateBadPosture(type, ts) ==
    IF type # "Normal"
    THEN LET start    == IF bad_posture_start = None THEN ts ELSE bad_posture_start
             duration == IF bad_posture_start = None THEN 0
                         ELSE ts - bad_posture_start
         IN  [bad_posture_start    |-> start,
              bad_posture_duration |-> duration,
              is_bad_posture       |-> duration >= PostureWarningDuration]
    ELSE [bad_posture_start    |-> None,
          bad_posture_duration |-> 0,
          is_bad_posture       |-> FALSE]

\* A bug the failure branch could have: a frame that cannot be solved resets the
\* timer as a Normal frame does.
PoseFailedResets ==
    [bad_posture_start    |-> None,
     bad_posture_duration |-> 0,
     is_bad_posture       |-> FALSE,
     posture_type         |-> "Unknown"]

\* A bug the failure branch could have: a frame that cannot be solved leaves
\* the warning flag as it was.
PoseFailedKeepsFlag ==
    [bad_posture_start    |-> bad_posture_start,
     bad_posture_duration |-> bad_posture_duration,
     is_bad_posture       |-> is_bad_posture,
     posture_type         |-> "Unknown"]

\* update, the branch of a frame estimate_head_pose could not solve
PoseFailed ==
    [bad_posture_start    |-> bad_posture_start,
     bad_posture_duration |-> bad_posture_duration,
     is_bad_posture       |-> FALSE,
     posture_type         |-> "Unknown"]

\* PostureMonitor.__init__, constructed at time 0.
InitPosture ==
    /\ posture_timestamp = 0
    /\ posture_frames = 0
    /\ pitch = 0
    /\ yaw = 0
    /\ roll = 0
    /\ bad_posture_start = None
    /\ bad_posture_duration = 0
    /\ is_bad_posture = FALSE
    /\ posture_type = "Normal"
    /\ solved = FALSE
    /\ bad_since = None

\* ---------------------------------------------- FatigueMonitorSystem.__init__
\* ConfigLoader._load_config returns what yaml.safe_load read and checks none of
\* it.  The file is a function from the keys it holds to their values.

\* the thresholds __init__ reads with cfg['key']
ConfigKeys == {"cooldown_time", "perclos_window", "blink_min", "blink_max",
               "pitch_threshold_up", "pitch_threshold_down", "warning_duration"}

\* the thresholds the other specifications run with
RunningConfig ==
    [cooldown_time        |-> Cooldown,
     perclos_window       |-> PerclosWindow,
     blink_min            |-> BlinkMin,
     blink_max            |-> BlinkMax,
     pitch_threshold_up   |-> PitchThresholdUp,
     pitch_threshold_down |-> PitchThresholdDown,
     warning_duration     |-> PostureWarningDuration]

\* files with every key: each threshold as the other specifications have it, or
\* a value the thresholds make no sense with
FullConfigs ==
    [cooldown_time        : {-1, Cooldown},
     perclos_window       : {-1, 0, PerclosWindow},
     blink_min            : {BlinkMin, BlinkMax + 1},
     blink_max            : {BlinkMax},
     pitch_threshold_up   : {PitchThresholdUp, PitchThresholdDown + 1},
     pitch_threshold_down : {PitchThresholdDown},
     warning_duration     : {-1, PostureWarningDuration}]

\* the files ConfigLoader may find: all keys, or one key short
ConfigFiles ==
    { [k \in present |-> full[k]] :
          full \in FullConfigs,
          present \in {ConfigKeys} \cup { ConfigKeys \ {k} : k \in ConfigKeys } }

\* What stops __init__: cfg['key'] of a key the file does not hold raises
\* KeyError, and deque(maxlen=perclos_window * 30) raises ValueError on a negative
\* length.  No constructor compares a threshold with anything.
ConstructionRaises(file) ==
    \/ \E k \in ConfigKeys : k \notin DOMAIN file
    \/ file["perclos_window"] < 0

\* the system constructed and in its frame loop
InitConstruction ==
    /\ yaml = RunningConfig
    /\ phase = "processing"

\* main.py's frame counter, and since when trigger_alert has a sink to start
InitLoop ==
    /\ frame_counter = 0
    /\ detected_history = << >>
    /\ first_sink_time = IF (enable_voice /\ voice_alert) \/ gui_alert
                         THEN 0
                         ELSE None

InitMonitors ==
    /\ InitDistance
    /\ InitPosture
    /\ InitConstruction
    /\ InitLoop

\* No sink thread runs and the lock is free.
Free == "free"

InitDispatch ==
    /\ workers = {}
    /\ lock = Free

\* The state after construction.  main.py registers the voice sink when
\* enable_voice is configured and the LED sink when enable_led is; app.py disables
\* the voice, registers its WebAlert as gui_alert, and the LED sink when
\* enable_led is configured.  (app.py also passes enable_gui to
\* AlertManager.__init__, which has no such parameter; the manager is modelled
\* as constructed without it.)
Init ==
    /\ mode \in {"desktop", "web"}
    /\ enable_voice \in BOOLEAN
    /\ mode = "web" => enable_voice = FALSE
    /\ voice_alert = enable_voice
    /\ led_alert \in BOOLEAN
    /\ gui_alert = (mode = "web")
    /\ now = 0
    /\ last_alert_time = EmptyDict
    /\ pc = [t \in Threads |-> "idle"]
    /\ status = [t \in Threads |-> InitialStatus]
    /\ alert_type = [t \in Threads |-> NoCall]
    /\ current_time = [t \in Threads |-> 0]
    /\ out = {}
    /\ InitDispatch
    /\ InitAnalyzer
    /\ InitMonitors

\* The clock advances.
Tick ==
    /\ now < MaxTime
    /\ now' = now + 1
    /\ out' = {}
    /\ UNCHANGED << monitors, analyzer, dispatch >>
    /\ UNCHANGED << config, last_alert_time, pc, status, alert_type, current_time >>

\* _check_and_trigger_alerts starts on the status snapshot st of a frame.
CheckAndTriggerAlerts(t, st) ==
    LET first == NextCall(st, "start") IN
    /\ status' = [status EXCEPT ![t] = IF first = NoCall THEN InitialStatus ELSE st]
    /\ pc' = [pc EXCEPT ![t] = IF first = NoCall THEN "idle" ELSE "call"]
    /\ alert_type' = [alert_type EXCEPT ![t] = first]
    /\ out' = {}

\* One processed frame with a face: the trackers publish a status snapshot and
\* _check_and_trigger_alerts starts.
ProcessFrame(t, lvl, close, bad) ==
    /\ pc[t] = "idle"
    /\ CheckAndTriggerAlerts(t, [fatigue_level |-> lvl, is_too_close |-> close,
                                 is_bad_posture |-> bad])
    /\ UNCHANGED << monitors, analyzer, dispatch >>
    /\ UNCHANGED << config, now, last_alert_time, current_time >>

\* A caller invokes trigger_alert(c) directly: the call enters can_alert, which
\* reads the clock before taking the lock.
ApiCall(t, c) ==
    /\ pc[t] = "idle"
    /\ pc' = [pc EXCEPT ![t] = "can_alert"]
    /\ alert_type' = [alert_type EXCEPT ![t] = c]
    /\ current_time' = [current_time EXCEPT ![t] = now]
    /\ out' = {}
    /\ UNCHANGED << monitors, analyzer, dispatch >>
    /\ UNCHANGED << config, now, last_alert_time, status >>

\* trigger_alert enters can_alert, which reads the clock before taking the lock.
ReadClock(t) ==
    /\ pc[t] = "call"
    /\ current_time' = [current_time EXCEPT ![t] = now]
    /\ pc' = [pc EXCEPT ![t] = "can_alert"]
    /\ out' = {}
    /\ UNCHANGED << monitors, analyzer, dispatch >>
    /\ UNCHANGED << config, now, last_alert_time, status, alert_type >>

\* A bug the early return could have: the dropped call restarts the cooldown.
CanAlertCheckExtend(t) ==
    /\ pc[t] = "can_alert"
    /\ IF CanAlert(alert_type[t], current_time[t])
       THEN /\ pc' = [pc EXCEPT ![t] = "record"]
            /\ out' = {}
            /\ UNCHANGED << alert_type, status, last_alert_time >>
       ELSE /\ Return(t)
            /\ out' = BuzzerStart(alert_type[t])
            /\ last_alert_time' = RecordTime(alert_type[t])
    /\ current_time' = [current_time EXCEPT ![t] = 0]
    /\ UNCHANGED << monitors, analyzer, dispatch >>
    /\ UNCHANGED << config, now >>

\* can_alert's locked block, and trigger_alert's early return when it is false.
\* can_alert's local current_time ends with the call.
CanAlertCheck(t) ==
    /\ pc[t] = "can_alert"
    /\ IF CanAlert(alert_type[t], current_time[t])
       THEN /\ pc' = [pc EXCEPT ![t] = "record"]
            /\ out' = {}
            /\ UNCHANGED << alert_type, status >>
       ELSE /\ Return(t)
            /\ out' = BuzzerStart(alert_type[t])
    /\ current_time' = [current_time EXCEPT ![t] = 0]
    /\ UNCHANGED << monitors, analyzer, dispatch >>
    /\ UNCHANGED << config, now, last_alert_time >>

\* A bug trigger_alert could have: the firing time is recorded only when a sink
\* thread is started.
RecordAndDispatchIfDelivered(t) ==
    /\ pc[t] = "record"
    /\ last_alert_time' = IF StartSinks(alert_type[t]) = {}
                          THEN last_alert_time
                          ELSE RecordTime(alert_type[t])
    /\ out' = StartSinks(alert_type[t]) \cup BuzzerStart(alert_type[t])
    /\ Return(t)
    /\ UNCHANGED << monitors, analyzer, dispatch >>
    /\ UNCHANGED << config, now, current_time >>

\* trigger_alert's second locked block, then the sink threads it starts.
RecordAndDispatch(t) ==
    /\ pc[t] = "record"
    /\ last_alert_time' = RecordTime(alert_type[t])
    /\ out' = StartSinks(alert_type[t]) \cup BuzzerStart(alert_type[t])
    /\ Return(t)
    /\ UNCHANGED << monitors, analyzer, dispatch >>
    /\ UNCHANGED << config, now, current_time >>

\* The line reset_cooldown prints when it clears the dictionary or deletes an entry.
ResetLog(arg) ==
    IF arg = NoCall \/ arg \in DOMAIN last_alert_time
    THEN {<<"reset_log", arg>>}
    ELSE {}

\* reset_cooldown, one locked block.
ResetCooldown(arg) ==
    /\ last_alert_time' = ResetCooldownDict(arg)
    /\ out' = ResetLog(arg)
    /\ UNCHANGED << monitors, analyzer, dispatch >>
    /\ UNCHANGED << config, now, pc, status, alert_type, current_time >>

\* FatigueAnalyzer.update on the eye landmarks of one frame at time ts: the EARs,
\* then the four trackers in the order of the code, then the fatigue level.
AnalyzerUpdate(l, r, ts) ==
    LET ear       == (l + r) \div 2
        is_closed == IsClosed(ear)
        blink     == UpdateBlinkDetection(is_closed, ts)
        window    == UpdatePerclos(is_closed)
        closure   == UpdateClosedEyeDuration(is_closed, ts)
    IN
    /\ frames' = frames + 1
    /\ timestamp' = ts
    /\ left_ear' = l
    /\ right_ear' = r
    /\ avg_ear' = ear
    /\ is_blinking' = blink.is_blinking
    /\ blink_counter' = blink.blink_counter
    /\ last_blink_time' = blink.last_blink_time
    /\ blinks_per_minute' = blink.blinks_per_minute
    /\ eye_state_history' = window.history
    /\ perclos_value' = window.perclos
    /\ eye_closed_start' = closure.eye_closed_start
    /\ eye_closed_duration' = closure.eye_closed_duration
    /\ is_drowsy' = closure.is_drowsy
    /\ fatigue_level' = CalculateFatigueLevel(window.perclos, closure.is_drowsy,
                                              closure.eye_closed_duration,
                                              blink.blinks_per_minute)
    /\ period_start' = IF blink.published THEN ts ELSE period_start
    /\ run_start' = IF ~is_closed THEN None
                    ELSE IF run_start = None THEN ts ELSE run_start
    /\ counter_before_run' = IF is_closed /\ run_start = None
                             THEN blink_counter ELSE counter_before_run

\* FatigueAnalyzer.update called on its own, dt seconds after the previous update.
Update(l, r, dt) ==
    /\ frames < MaxFrames
    /\ AnalyzerUpdate(l, r, timestamp + dt)
    /\ UNCHANGED << alerts, dispatch, monitors >>

\* DistanceMonitor.update at time ts.
DistanceMonitorUpdate(use_eye_distance, eye_pixels, face_box_width, ts) ==
    LET d        == RawDistance(use_eye_distance, eye_pixels, face_box_width)
        smoothed == SmoothDistance(d)
        close    == IsCurrentlyClose(smoothed.current)
        timer    == UpdateTooClose(close, ts)
    IN
    /\ distance_frames' = distance_frames + 1
    /\ distance_timestamp' = ts
    /\ distance' = d
    /\ distance_history' = smoothed.history
    /\ current_distance' = smoothed.current
    /\ too_close_start' = timer.too_close_start
    /\ too_close_duration' = timer.too_close_duration
    /\ is_too_close' = timer.is_too_close
    /\ measured_eye_pixels' = IF use_eye_distance THEN eye_pixels ELSE None
    /\ measured_face_width' =
           IF FaceWidthMethod(use_eye_distance, eye_pixels, face_box_width)
           THEN face_box_width
           ELSE None
    /\ evicted' = IF d > 0 /\ Len(distance_history) >= HistoryMaxLen
                  THEN Head(distance_history)
                  ELSE None
    /\ close_since' = IF ~close THEN None
                      ELSE IF close_since = None THEN ts ELSE close_since

\* DistanceMonitor.update called on its own, dt seconds after the previous call.
DistanceUpdate(use_eye_distance, eye_pixels, face_box_width, dt) ==
    /\ distance_timestamp + dt <= MaxDistanceTime
    /\ DistanceMonitorUpdate(use_eye_distance, eye_pixels, face_box_width,
                             distance_timestamp + dt)
    /\ UNCHANGED << alerts, dispatch, analyzer, posture_monitor, construction,
                   loop, first_sink_time >>

\* PostureMonitor.update at time ts on a frame estimate_head_pose solved, with
\* the angles rotation_vector_to_euler_angles returned.
PostureSolved(p, y, r, ts) ==
    LET type  == ClassifyPosture(p)
        timer == UpdateBadPosture(type, ts)
    IN
    /\ posture_frames' = posture_frames + 1
    /\ posture_timestamp' = ts
    /\ pitch' = p
    /\ yaw' = y
    /\ roll' = r
    /\ posture_type' = type
    /\ bad_posture_start' = timer.bad_posture_start
    /\ bad_posture_duration' = timer.bad_posture_duration
    /\ is_bad_posture' = timer.is_bad_posture
    /\ solved' = TRUE
    /\ bad_since' = IF type = "Normal" THEN None
                    ELSE IF bad_since = None THEN ts ELSE bad_since

\* PostureMonitor.update called on its own on a solved frame, dt seconds after
\* the previous call.
PostureUpdateSolved(p, y, r, dt) ==
    /\ posture_frames < MaxPostureFrames
    /\ PostureSolved(p, y, r, posture_timestamp + dt)
    /\ UNCHANGED << alerts, dispatch, analyzer, distance_monitor, construction,
                   loop, first_sink_time >>

\* PostureMonitor.update at time ts on a frame estimate_head_pose could not solve.
PostureFailed(ts) ==
    /\ posture_frames' = posture_frames + 1
    /\ posture_timestamp' = ts
    /\ posture_type' = PoseFailed.posture_type
    /\ bad_posture_start' = PoseFailed.bad_posture_start
    /\ bad_posture_duration' = PoseFailed.bad_posture_duration
    /\ is_bad_posture' = PoseFailed.is_bad_posture
    /\ solved' = FALSE
    /\ UNCHANGED << pitch, yaw, roll, bad_since >>

\* PostureMonitor.update called on its own on an unsolved frame, dt seconds after
\* the previous call.
PostureUpdateFailed(dt) ==
    /\ posture_frames < MaxPostureFrames
    /\ PostureFailed(posture_timestamp + dt)
    /\ UNCHANGED << alerts, dispatch, analyzer, distance_monitor, construction,
                   loop, first_sink_time >>

\* FatigueMonitorSystem.__init__ on the file ConfigLoader read.
Construct ==
    /\ phase = "loaded"
    /\ phase' = IF ConstructionRaises(yaml) THEN "failed" ELSE "constructed"
    /\ UNCHANGED << yaml, distance_monitor, posture_monitor, loop,
                   first_sink_time >>
    /\ UNCHANGED << alerts, dispatch, analyzer >>

\* FatigueMonitorSystem.run: the frame loop starts when the camera does.
Run(camera_started) ==
    /\ phase = "constructed"
    /\ phase' = IF camera_started THEN "processing" ELSE "stopped"
    /\ UNCHANGED << yaml, distance_monitor, posture_monitor, loop,
                   first_sink_time >>
    /\ UNCHANGED << alerts, dispatch, analyzer >>

\* What the setters of the two sinks leave alone.
SetterFrame ==
    /\ out' = {}
    /\ UNCHANGED << mode, enable_voice, led_alert, now, last_alert_time, pc, status,
                    alert_type, current_time >>
    /\ UNCHANGED << dispatch, analyzer, distance_monitor, posture_monitor,
                    construction, loop >>

\* set_voice_alert with a voice sink.
SetVoiceAlert ==
    /\ ~voice_alert
    /\ voice_alert' = TRUE
    /\ first_sink_time' = IF first_sink_time = None /\ enable_voice
                          THEN now
                          ELSE first_sink_time
    /\ UNCHANGED gui_alert
    /\ SetterFrame

\* set_gui_alert with a GUI or Web sink.
SetGuiAlert ==
    /\ ~gui_alert
    /\ gui_alert' = TRUE
    /\ first_sink_time' = IF first_sink_time = None THEN now ELSE first_sink_time
    /\ UNCHANGED voice_alert
    /\ SetterFrame

\* The frame pipeline: one thread, frame after frame.
Next ==
    \/ Tick
    \/ \E lvl \in FatigueLevels, close \in BOOLEAN, bad \in BOOLEAN :
           ProcessFrame(PipelineThread, lvl, close, bad)
    \/ ReadClock(PipelineThread)
    \/ CanAlertCheck(PipelineThread)
    \/ RecordAndDispatch(PipelineThread)

Spec == Init /\ [][Next]_vars

\* The arbiter under two concurrent callers of trigger_alert.
NextConcurrent ==
    \/ Tick
    \/ \E t \in Threads, c \in AlertType : ApiCall(t, c)
    \/ \E t \in Threads : CanAlertCheck(t)
    \/ \E t \in Threads : RecordAndDispatch(t)

SpecConcurrent == Init /\ [][NextConcurrent]_vars

\* The arbiter's whole interface under one caller: trigger_alert and reset_cooldown.
NextApi ==
    \/ Tick
    \/ \E c \in AlertType : ApiCall(PipelineThread, c)
    \/ CanAlertCheck(PipelineThread)
    \/ RecordAndDispatch(PipelineThread)
    \/ \E arg \in AlertType \cup {NoCall} : ResetCooldown(arg)

SpecApi == Init /\ [][NextApi]_vars

\* ------------------------------------------- the lock and the sink threads
\* The same code with the entry of each `with self.lock:` block as a step of its
\* own and the sink threads followed until they end.  pc has two more values
\* here: "start_sinks" (the timestamp is recorded, the threads are not started
\* yet) and "reset" (inside reset_cooldown, before or in its locked block).
\* workers is a set: a sink started again for a category while its earlier
\* thread still runs is one element.

\* Categories, and reset_cooldown arguments, that the callers use here.
SomeAlertTypes == {"fatigue", "severe"}

\* Entry of a `with self.lock:` block: the thread waits until the lock is free.
AcquireLock(t) ==
    /\ pc[t] \in {"can_alert", "record", "reset"}
    /\ lock = Free
    /\ lock' = t
    /\ out' = {}
    /\ UNCHANGED << monitors, analyzer, workers >>
    /\ UNCHANGED << config, now, last_alert_time, pc, status, alert_type,
                    current_time >>

\* can_alert's locked block and the release at its end, then trigger_alert's
\* early return when the answer is false.
LockedCheck(t) ==
    /\ pc[t] = "can_alert"
    /\ lock = t
    /\ lock' = Free
    /\ IF CanAlert(alert_type[t], current_time[t])
       THEN /\ pc' = [pc EXCEPT ![t] = "record"]
            /\ out' = {}
            /\ UNCHANGED << alert_type, status >>
       ELSE /\ Return(t)
            /\ out' = BuzzerStart(alert_type[t])
    /\ current_time' = [current_time EXCEPT ![t] = 0]
    /\ UNCHANGED << monitors, analyzer, workers >>
    /\ UNCHANGED << config, now, last_alert_time >>

\* A bug trigger_alert could have: the timestamp written without taking the lock.
LockedRecordWithoutLock(t) ==
    /\ pc[t] = "record"
    /\ last_alert_time' = RecordTime(alert_type[t])
    /\ pc' = [pc EXCEPT ![t] = "start_sinks"]
    /\ out' = {}
    /\ UNCHANGED << monitors, analyzer, workers, lock >>
    /\ UNCHANGED << config, now, status, alert_type, current_time >>

\* trigger_alert's second locked block: the timestamp is written, the lock
\* released.
LockedRecord(t) ==
    /\ pc[t] = "record"
    /\ lock = t
    /\ lock' = Free
    /\ last_alert_time' = RecordTime(alert_type[t])
    /\ pc' = [pc EXCEPT ![t] = "start_sinks"]
    /\ out' = {}
    /\ UNCHANGED << monitors, analyzer, workers >>
    /\ UNCHANGED << config, now, status, alert_type, current_time >>

\* A bug trigger_alert could have: it waits for the sinks still running before
\* it starts the new ones.
StartSinkThreadsWhenDone(t) ==
    /\ pc[t] = "start_sinks"
    /\ workers = {}
    /\ workers' = StartSinks(alert_type[t])
    /\ out' = StartSinks(alert_type[t]) \cup BuzzerStart(alert_type[t])
    /\ Return(t)
    /\ UNCHANGED << monitors, analyzer, lock >>
    /\ UNCHANGED << config, now, last_alert_time, current_time >>

\* After the locked block trigger_alert starts one daemon thread per sink and
\* returns; it joins none of them.
StartSinkThreads(t) ==
    /\ pc[t] = "start_sinks"
    /\ workers' = workers \cup StartSinks(alert_type[t])
    /\ out' = StartSinks(alert_type[t]) \cup BuzzerStart(alert_type[t])
    /\ Return(t)
    /\ UNCHANGED << monitors, analyzer, lock >>
    /\ UNCHANGED << config, now, last_alert_time, current_time >>

\* A caller invokes reset_cooldown(arg); NoCall stands for None.
CallReset(t, arg) ==
    /\ pc[t] = "idle"
    /\ pc' = [pc EXCEPT ![t] = "reset"]
    /\ alert_type' = [alert_type EXCEPT ![t] = arg]
    /\ out' = {}
    /\ UNCHANGED << monitors, analyzer, dispatch >>
    /\ UNCHANGED << config, now, last_alert_time, status, current_time >>

\* reset_cooldown's locked block and the release at its end.
LockedReset(t) ==
    /\ pc[t] = "reset"
    /\ lock = t
    /\ lock' = Free
    /\ last_alert_time' = ResetCooldownDict(alert_type[t])
    /\ out' = ResetLog(alert_type[t])
    /\ pc' = [pc EXCEPT ![t] = "idle"]
    /\ alert_type' = [alert_type EXCEPT ![t] = NoCall]
    /\ UNCHANGED << monitors, analyzer, workers >>
    /\ UNCHANGED << config, now, status, current_time >>

\* The line _trigger_voice, _trigger_gui print when the sink raised.
ErrorLog(w) == {<< "error_log", w[1], w[2] >>}

\* A sink thread ends: the sink returned.
SinkReturns(w) ==
    /\ w \in workers
    /\ workers' = workers \ {w}
    /\ out' = {}
    /\ UNCHANGED << monitors, analyzer, lock >>
    /\ UNCHANGED << config, now, last_alert_time, pc, status, alert_type,
                    current_time >>

\* A bug the worker could have: the failed delivery is tried again.
SinkRaisesAndRetries(w) ==
    /\ w \in workers
    /\ out' = ErrorLog(w)
    /\ UNCHANGED << monitors, analyzer, dispatch >>
    /\ UNCHANGED << config, now, last_alert_time, pc, status, alert_type,
                    current_time >>

\* A sink thread ends: the sink raised, and the `except Exception` of
\* _trigger_voice / _trigger_gui printed the error.
SinkRaises(w) ==
    /\ w \in workers
    /\ workers' = workers \ {w}
    /\ out' = ErrorLog(w)
    /\ UNCHANGED << monitors, analyzer, lock >>
    /\ UNCHANGED << config, now, last_alert_time, pc, status, alert_type,
                    current_time >>

\* An AlertManager with the voice enabled and all three sinks registered through
\* set_voice_alert, set_led_alert and set_gui_alert.
InitAllSinks ==
    /\ mode = "desktop"
    /\ enable_voice = TRUE
    /\ voice_alert = TRUE
    /\ led_alert = TRUE
    /\ gui_alert = TRUE
    /\ now = 0
    /\ last_alert_time = EmptyDict
    /\ pc = [t \in Threads |-> "idle"]
    /\ status = [t \in Threads |-> InitialStatus]
    /\ alert_type = [t \in Threads |-> NoCall]
    /\ current_time = [t \in Threads |-> 0]
    /\ out = {}
    /\ InitDispatch
    /\ InitAnalyzer
    /\ InitMonitors

\* Two threads call trigger_alert, and t2 also reset_cooldown; a sink thread that
\* is running may return, raise, or stay running.
NextDispatch ==
    \/ Tick
    \/ \E t \in Threads, c \in SomeAlertTypes : ApiCall(t, c)
    \/ \E arg \in SomeAlertTypes \cup {NoCall} : CallReset("t2", arg)
    \/ \E t \in Threads : AcquireLock(t)
    \/ \E t \in Threads : LockedCheck(t)
    \/ \E t \in Threads : LockedRecord(t)
    \/ \E t \in Threads : StartSinkThreads(t)
    \/ \E t \in Threads : LockedReset(t)
    \/ \E w \in workers : SinkReturns(w)
    \/ \E w \in workers : SinkRaises(w)

SpecDispatch == InitAllSinks /\ [][NextDispatch]_vars

\* --------------------------------------------------------- the web application
\* app.py serves /video_feed with one generate_frames generator per request, and
\* every generator calls process_frame of the one global monitoring_system.
\* process_frame takes no lock around the tracker updates (frame_lock guards only
\* the copy of the frame), so whether two requests overlap is up to the server's
\* threads.  pc has one more value here, "update": inside process_frame, in the
\* update calls of the three trackers.

\* process_frame has read a frame, found a face and enters the tracker updates.
EnterTrackers(t) ==
    /\ pc[t] = "idle"
    /\ pc' = [pc EXCEPT ![t] = "update"]
    /\ out' = {}
    /\ UNCHANGED << monitors, analyzer, dispatch >>
    /\ UNCHANGED << config, now, last_alert_time, status, alert_type,
                    current_time >>

\* The three updates are done: the trackers publish a status snapshot and
\* _check_and_trigger_alerts starts.
LeaveTrackers(t, lvl, close, bad) ==
    LET st == [fatigue_level |-> lvl, is_too_close |-> close, is_bad_posture |-> bad]
        first == NextCall(st, "start")
    IN
    /\ pc[t] = "update"
    /\ status' = [status EXCEPT ![t] = IF first = NoCall THEN InitialStatus ELSE st]
    /\ pc' = [pc EXCEPT ![t] = IF first = NoCall THEN "idle" ELSE "call"]
    /\ alert_type' = [alert_type EXCEPT ![t] = first]
    /\ out' = {}
    /\ UNCHANGED << monitors, analyzer, dispatch >>
    /\ UNCHANGED << config, now, last_alert_time, current_time >>

\* app.py as constructed.
InitWeb == Init /\ mode = "web"

\* Two /video_feed requests being served.  The clock is left where it is: whether
\* the two requests overlap does not depend on it.
NextWeb ==
    \/ \E t \in Threads : EnterTrackers(t)
    \/ \E t \in Threads, lvl \in FatigueLevels, close \in BOOLEAN, bad \in BOOLEAN :
           LeaveTrackers(t, lvl, close, bad)
    \/ \E t \in Threads : ReadClock(t)
    \/ \E t \in Threads : CanAlertCheck(t)
    \/ \E t \in Threads : RecordAndDispatch(t)

SpecWeb == InitWeb /\ [][NextWeb]_vars

\* The fatigue analyzer, update after update on the frames that show a face.
NextFatigue ==
    \E l \in EarValues, r \in EarValues, dt \in Deltas : Update(l, r, dt)

\* The analyzer reads nothing of the alert configuration: one configuration of
\* main.py stands for all.
InitFatigue == Init /\ mode = "desktop" /\ enable_voice /\ led_alert

SpecFatigue == InitFatigue /\ [][NextFatigue]_vars

\* The distance monitor, update after update on the frames that show a face.
NextDistance ==
    \E use_eye_distance \in BOOLEAN, eye_pixels \in EyePixelDistances,
       face_box_width \in FaceBoxWidths, dt \in DistanceDeltas :
        DistanceUpdate(use_eye_distance, eye_pixels, face_box_width, dt)

SpecDistance == InitFatigue /\ [][NextDistance]_vars

\* The posture monitor, update after update on the frames that show a face.
NextPosture ==
    \/ \E p \in PitchValues, y \in AngleValues, r \in AngleValues,
          dt \in PostureDeltas : PostureUpdateSolved(p, y, r, dt)
    \/ \E dt \in PostureDeltas : PostureUpdateFailed(dt)

SpecPosture == InitFatigue /\ [][NextPosture]_vars

\* main.py from the moment ConfigLoader has read the file.
InitLoaded ==
    /\ mode = "desktop"
    /\ enable_voice \in BOOLEAN
    /\ voice_alert = enable_voice
    /\ led_alert \in BOOLEAN
    /\ gui_alert = FALSE
    /\ now = 0
    /\ last_alert_time = EmptyDict
    /\ pc = [t \in Threads |-> "idle"]
    /\ status = [t \in Threads |-> InitialStatus]
    /\ alert_type = [t \in Threads |-> NoCall]
    /\ current_time = [t \in Threads |-> 0]
    /\ out = {}
    /\ InitDispatch
    /\ InitAnalyzer
    /\ InitDistance
    /\ InitPosture
    /\ yaml \in ConfigFiles
    /\ phase = "loaded"
    /\ InitLoop

NextConstruction ==
    \/ Construct
    \/ \E camera_started \in BOOLEAN : Run(camera_started)

SpecConstruction == InitLoaded /\ [][NextConstruction]_vars

\* AlertManager.__init__: no sink is registered yet.
InitManager ==
    /\ mode = "desktop"
    /\ enable_voice \in BOOLEAN
    /\ voice_alert = FALSE
    /\ led_alert = FALSE
    /\ gui_alert = FALSE
    /\ now = 0
    /\ last_alert_time = EmptyDict
    /\ pc = [t \in Threads |-> "idle"]
    /\ status = [t \in Threads |-> InitialStatus]
    /\ alert_type = [t \in Threads |-> NoCall]
    /\ current_time = [t \in Threads |-> 0]
    /\ out = {}
    /\ InitDispatch
    /\ InitAnalyzer
    /\ InitMonitors

\* The frame pipeline on a manager whose voice and GUI sinks are registered
\* while it runs (trigger_alert never reads led_alert).
NextRegister ==
    \/ Next
    \/ SetVoiceAlert
    \/ SetGuiAlert

SpecRegister == InitManager /\ [][NextRegister]_vars

\* --------------------------------------------------------------- frame loop
\* The loop of FatigueMonitorSystem.run and of WebMonitoringSystem.process_frame
\* on the pipeline thread: each frame read from the camera either shows a face,
\* and then the three trackers are updated and _check_and_trigger_alerts runs on
\* their results, or shows none, and then nothing but the display is touched.
\* The trackers read the clock themselves; the frame's three reads fall in the
\* same second.

MaxSystemFrames == 4  \* the frames followed

SystemFaceBoxWidth == 290          \* x_max - x_min of the landmarks

\* What a frame with a face shows: the EAR of both eyes (20 closed, 30 open),
\* the pixel distance between the eyes (60 is 63.0 cm away, 126 is 30.0 cm
\* away), whether the head pose is solved and the pitch it gives (13 is Head
\* Down).
Scene(ear, eye_pixels, pose_solved, p) ==
    [ear |-> ear, eye_pixels |-> eye_pixels, pose_solved |-> pose_solved, pitch |-> p]

SystemScenes ==
    { Scene(30, 60, TRUE, 0),      \* attentive
      Scene(20, 60, TRUE, 0),      \* eyes closed
      Scene(30, 126, TRUE, 0),     \* too close
      Scene(30, 60, TRUE, 13),     \* head down
      Scene(30, 60, FALSE, 0),     \* pose not solved
      Scene(20, 126, TRUE, 13) }   \* closed, close and head down

\* `detected` of the last two frames, after a frame with the value d.
Detected(d) ==
    IF detected_history = << >>
    THEN << d >>
    ELSE << detected_history[Len(detected_history)], d >>

\* A frame the detector finds a face in: FatigueAnalyzer.update,
\* DistanceMonitor.update on the eye landmarks and the face box,
\* PostureMonitor.update (solved with pitch p, or not solved), then
\* _check_and_trigger_alerts on the three results.
FaceFrame(ear, eye_pixels, pose_solved, p) ==
    /\ pc[PipelineThread] = "idle"
    /\ frame_counter < MaxSystemFrames
    /\ frame_counter' = frame_counter + 1
    /\ detected_history' = Detected(TRUE)
    /\ AnalyzerUpdate(ear, ear, now)
    /\ DistanceMonitorUpdate(TRUE, eye_pixels, SystemFaceBoxWidth, now)
    /\ IF pose_solved THEN PostureSolved(p, 0, 0, now) ELSE PostureFailed(now)
    /\ CheckAndTriggerAlerts(PipelineThread,
                             [fatigue_level |-> fatigue_level',
                              is_too_close |-> is_too_close',
                              is_bad_posture |-> is_bad_posture'])
    /\ UNCHANGED << config, now, last_alert_time, current_time >>
    /\ UNCHANGED << dispatch, construction, first_sink_time >>

\* A bug the loop could have: a frame without a face still runs
\* _check_and_trigger_alerts, on the status the trackers last gave.
NoFaceFrameChecksAlerts ==
    /\ pc[PipelineThread] = "idle"
    /\ frame_counter < MaxSystemFrames
    /\ frame_counter' = frame_counter + 1
    /\ detected_history' = Detected(FALSE)
    /\ CheckAndTriggerAlerts(PipelineThread,
                             [fatigue_level |-> fatigue_level,
                              is_too_close |-> is_too_close,
                              is_bad_posture |-> is_bad_posture])
    /\ UNCHANGED << config, now, last_alert_time, current_time >>
    /\ UNCHANGED << dispatch, analyzer, distance_monitor, posture_monitor,
                   construction, first_sink_time >>

\* A frame the detector finds no face in: the loop draws "No Face Detected" and
\* goes on to the next frame.
NoFaceFrame ==
    /\ pc[PipelineThread] = "idle"
    /\ frame_counter < MaxSystemFrames
    /\ frame_counter' = frame_counter + 1
    /\ detected_history' = Detected(FALSE)
    /\ out' = {}
    /\ UNCHANGED << config, now, last_alert_time, pc, status, alert_type, current_time >>
    /\ UNCHANGED << dispatch, analyzer, distance_monitor, posture_monitor,
                   construction, first_sink_time >>

\* The programs as main.py and app.py construct them, with the voice sink
\* configured on the desktop.
InitSystem == Init /\ enable_voice = (mode = "desktop") /\ led_alert

NextSystem ==
    \/ Tick
    \/ \E s \in SystemScenes : FaceFrame(s.ear, s.eye_pixels, s.pose_solved, s.pitch)
    \/ NoFaceFrame
    \/ ReadClock(PipelineThread)
    \/ CanAlertCheck(PipelineThread)
    \/ RecordAndDispatch(PipelineThread)

SpecSystem == InitSystem /\ [][NextSystem]_vars


\* ------------------------------------------------------------------ claims

\* The steps of a trigger_alert call by thread t, read off two successive states.
CheckStep(t) == pc[t] = "can_alert" /\ pc'[t] # "can_alert"
PassStep(t) == pc[t] = "can_alert" /\ pc'[t] = "record"
RecordStep(t) == pc[t] = "record" /\ pc'[t] # "record"

\* The manager's sink threads among an emission.
ManagerOut(o) == {e \in o : e[1] \in ManagerSinks}

\* The category's cooldown is running for the call thread t is making.
InCooldown(t) ==
    /\ alert_type[t] \in DOMAIN last_alert_time
    /\ current_time[t] - last_alert_time[alert_type[t]] < Cooldown

\* C1: two concurrent trigger_alert calls for one category never both pass the
\* cooldown check: no two threads are past the check, about to record, for the
\* same category.
C1_AtMostOnePasses ==
    \A t1, t2 \in Threads :
        (t1 # t2 /\ pc[t1] = "record" /\ pc[t2] = "record")
            => alert_type[t1] # alert_type[t2]

\* At least one sink is registered with the manager.
SinkRegistered == voice_alert \/ led_alert \/ gui_alert

\* C2: with one caller and a registered sink, a call made less than Cooldown after
\* the category's recorded firing starts no sink thread and records nothing, a call
\* made at or after Cooldown passes, and every firing starts a sink thread and
\* records a time at least Cooldown after the time it replaces.
C2_OneDispatchPerWindow ==
    [][\A t \in Threads :
        SinkRegistered =>
            /\ (CheckStep(t) /\ InCooldown(t))
                   => (ManagerOut(out') = {} /\ last_alert_time' = last_alert_time)
            /\ (CheckStep(t) /\ alert_type[t] \in DOMAIN last_alert_time
                    /\ ~InCooldown(t))
                   => pc'[t] = "record"
            /\ RecordStep(t)
                   => /\ ManagerOut(out') # {}
                      /\ alert_type[t] \in DOMAIN last_alert_time
                            => last_alert_time'[alert_type[t]]
                                   - last_alert_time[alert_type[t]] >= Cooldown
      ]_vars

\* The timing half of C2, which does not depend on the sinks: under one caller a
\* dropped call records nothing and two successive recorded times of a category
\* are at least Cooldown apart.
CooldownSpacing ==
    [][\A t \in Threads :
        /\ (CheckStep(t) /\ InCooldown(t))
               => (ManagerOut(out') = {} /\ last_alert_time' = last_alert_time)
        /\ (CheckStep(t) /\ alert_type[t] \in DOMAIN last_alert_time
                /\ ~InCooldown(t))
               => pc'[t] = "record"
        /\ (RecordStep(t) /\ alert_type[t] \in DOMAIN last_alert_time)
               => last_alert_time'[alert_type[t]]
                      - last_alert_time[alert_type[t]] >= Cooldown
      ]_vars

\* C3: can_alert answers true exactly when the category has no entry or the time
\* elapsed since its entry is at least Cooldown.
C3_CanAlertIff ==
    [][\A t \in Threads :
        CheckStep(t) =>
            (pc'[t] = "record" <=>
                \/ alert_type[t] \notin DOMAIN last_alert_time
                \/ current_time[t] - last_alert_time[alert_type[t]] >= Cooldown)
      ]_vars

\* The boundary of C3: a call has passed with exactly Cooldown elapsed.
C3_Witness ==
    \E t \in Threads :
        /\ pc[t] = "record"
        /\ alert_type[t] \in DOMAIN last_alert_time
        /\ now - last_alert_time[alert_type[t]] = Cooldown

\* C4: a call made during the cooldown changes nothing: the dictionary is kept, no
\* sink thread starts, and sink threads start only in the step in which a call
\* that passed its check records, for that call's category (nothing is queued).
C4_DroppedIsNoOp ==
    [][/\ \A t \in Threads :
              (CheckStep(t) /\ InCooldown(t))
                  => /\ last_alert_time' = last_alert_time
                     /\ ManagerOut(out') = {}
                     /\ pc'[t] \in {"idle", "call"}
       /\ ManagerOut(out') # {}
              => \E t \in Threads :
                     /\ RecordStep(t)
                     /\ \A e \in ManagerOut(out') : e[2] = alert_type[t]
      ]_vars

\* A call was just dropped (the web pipeline's buzzer is all the step started)
\* while its category's cooldown is running.
C4_Witness ==
    \E c \in AlertType :
        /\ out = {<<Buzzer, c>>}
        /\ c \in DOMAIN last_alert_time
        /\ now - last_alert_time[c] < Cooldown

\* C5: a call that records writes its own category's entry and keeps every other
\* category's entry, whatever the other thread is doing.
C5_NoLostUpdate ==
    [][\A t \in Threads :
        RecordStep(t) =>
            /\ alert_type[t] \in DOMAIN last_alert_time'
            /\ last_alert_time'[alert_type[t]] = now
            /\ \A d \in (DOMAIN last_alert_time) \ {alert_type[t]} :
                   /\ d \in DOMAIN last_alert_time'
                   /\ last_alert_time'[d] = last_alert_time[d]
      ]_vars

\* Two calls for distinct categories are both past their checks, and one of them
\* has just recorded while the other is about to.
C5_Witness ==
    \E t \in Threads, c \in AlertType :
        /\ pc[t] = "record"
        /\ alert_type[t] # c
        /\ alert_type[t] \notin DOMAIN last_alert_time
        /\ c \in DOMAIN last_alert_time
        /\ last_alert_time[c] = now
        /\ \E e \in out : e[2] = c /\ e[1] \in ManagerSinks

\* C6: in a cycle whose fatigue_level is 3 the only trigger_alert call is the one
\* for the severe category: the cycle starts with it, no call for another category
\* is ever in progress, and whatever the cycle's steps start is for that category.
C6_SevereOnly ==
    /\ [](\A t \in Threads :
            (pc[t] # "idle" /\ status[t].fatigue_level = 3)
                => alert_type[t] = "severe")
    /\ [][\A t \in Threads :
            /\ (pc[t] = "idle" /\ status'[t].fatigue_level = 3)
                   => (pc'[t] = "call" /\ alert_type'[t] = "severe")
            /\ status[t].fatigue_level = 3
                   => /\ \A e \in out' : e[2] = "severe"
                      /\ last_alert_time' \in
                             {last_alert_time, RecordTime("severe")}
         ]_vars

\* A severe-fatigue cycle with both other conditions true whose severe call is
\* about to be dropped by its cooldown.
C6_Witness ==
    \E t \in Threads :
        /\ status[t] = [fatigue_level |-> 3, is_too_close |-> TRUE,
                        is_bad_posture |-> TRUE]
        /\ pc[t] = "can_alert"
        /\ InCooldown(t)

\* The condition the pipeline tests before it calls trigger_alert for a category.
Condition(st, c) ==
    CASE c = "severe" -> st.fatigue_level = 3
      [] c = "fatigue" -> st.fatigue_level >= 1
      [] c = "distance" -> st.is_too_close
      [] c = "posture" -> st.is_bad_posture

\* The order in which the pipeline visits the three independent categories.
Position(c) ==
    CASE c = "fatigue" -> 1
      [] c = "distance" -> 2
      [] c = "posture" -> 3
      [] OTHER -> 4

\* C7: with fatigue_level < 3 each of fatigue, distance and posture is attempted
\* exactly when its own condition holds, whatever happened to the categories
\* before it; its check passes exactly on its own entry; and its firing writes
\* its own entry only.
C7_Independent ==
    /\ [](\A t \in Threads :
            (pc[t] # "idle" /\ status[t].fatigue_level < 3)
                => /\ alert_type[t] \in {"fatigue", "distance", "posture"}
                   /\ Condition(status[t], alert_type[t]))
    /\ [][\A t \in Threads :
            LET st == IF pc[t] = "idle" THEN status'[t] ELSE status[t]
                from == IF pc[t] = "idle" THEN 0 ELSE Position(alert_type[t])
                to == Position(alert_type'[t])
            IN
            (st.fatigue_level < 3 /\ pc[t] # pc'[t]) =>
                /\ (pc'[t] \in {"idle", "call"} /\ pc[t] # "call")
                       => \A c \in {"fatigue", "distance", "posture"} :
                              (from < Position(c) /\ Position(c) < to)
                                  => ~Condition(st, c)
                /\ CheckStep(t)
                       => (pc'[t] = "record" <=>
                              (alert_type[t] \in DOMAIN last_alert_time
                                  => current_time[t]
                                         - last_alert_time[alert_type[t]]
                                             >= Cooldown))
                /\ RecordStep(t)
                       => /\ \A e \in out' : e[2] = alert_type[t]
                          /\ \A d \in AlertType \ {alert_type[t]} :
                                 /\ d \in DOMAIN last_alert_time'
                                        <=> d \in DOMAIN last_alert_time
                                 /\ d \in DOMAIN last_alert_time
                                        => last_alert_time'[d] = last_alert_time[d]
         ]_vars

\* The third firing of one cycle is about to happen: all three conditions hold,
\* fatigue and distance have fired at the current time, posture has passed.
C7_Witness ==
    \E t \in Threads :
        /\ status[t].fatigue_level \in {1, 2}
        /\ status[t].is_too_close /\ status[t].is_bad_posture
        /\ pc[t] = "record" /\ alert_type[t] = "posture"
        /\ {"fatigue", "distance"} \subseteq DOMAIN last_alert_time
        /\ last_alert_time["fatigue"] = now
        /\ last_alert_time["distance"] = now

Registered ==
    {s \in ManagerSinks :
        \/ s = "voice" /\ voice_alert
        \/ s = "led" /\ led_alert
        \/ s = "gui" /\ gui_alert}

\* C9: a firing starts exactly one thread for every registered sink.
C9_EveryRegisteredSink ==
    [][\A t \in Threads :
        RecordStep(t) =>
            ManagerOut(out') = {<<s, alert_type[t]>> : s \in Registered}
      ]_vars

\* What reset_cooldown(arg) is to leave of dictionary d.
AfterReset(d, arg) ==
    IF arg = NoCall
    THEN EmptyDict
    ELSE [x \in (DOMAIN d) \ {arg} |-> d[x]]

\* C10: reset_cooldown(c) removes c's entry and keeps the others, reset_cooldown(None)
\* empties the dictionary, a reset of an absent category changes nothing; and a
\* call for a category without an entry passes the check and records its firing,
\* however recently the category fired.
C10_Reset ==
    /\ [](\A arg \in AlertType \cup {NoCall} :
            ResetCooldownDict(arg) = AfterReset(last_alert_time, arg))
    /\ [][/\ (last_alert_time' # last_alert_time
                 /\ \A t \in Threads : ~RecordStep(t))
                => \E arg \in AlertType \cup {NoCall} :
                       /\ last_alert_time' = AfterReset(last_alert_time, arg)
                       /\ out' = {<<"reset_log", arg>>}
          /\ (\E arg \in AlertType : out' = {<<"reset_log", arg>>})
                => \E arg \in DOMAIN last_alert_time :
                       /\ out' = {<<"reset_log", arg>>}
                       /\ last_alert_time' = AfterReset(last_alert_time, arg)
          /\ \A t \in Threads :
                (CheckStep(t) /\ alert_type[t] \notin DOMAIN last_alert_time)
                    => pc'[t] = "record"
          /\ \A t \in Threads :
                RecordStep(t)
                    => /\ alert_type[t] \in DOMAIN last_alert_time'
                       /\ last_alert_time'[alert_type[t]] = now
         ]_vars

\* At time 0 a reset has just deleted the entry of a category, which had
\* therefore fired at time 0, another category keeps its entry, and a call for
\* the deleted one is under way.
C10_Witness ==
    \E t \in Threads, c \in AlertType, d \in AlertType :
        /\ out = {<<"reset_log", c>>}
        /\ c \notin DOMAIN last_alert_time
        /\ d # c /\ d \in DOMAIN last_alert_time
        /\ pc[t] = "can_alert" /\ alert_type[t] = c
        /\ now = 0

\* ----------------------------------------- lock and sink-thread properties

\* Thread t takes a step of the call it is in.
CallerStep(t) ==
    \/ AcquireLock(t)
    \/ LockedCheck(t)
    \/ LockedRecord(t)
    \/ StartSinkThreads(t)
    \/ LockedReset(t)

\* C11: when a sink raises in its thread, that thread ends there: the delivery
\* is not tried again, the other sink threads stay as they are, the recorded
\* timestamp is kept, and no caller is touched: every call in progress stands
\* where it stood and goes on as after a delivery that succeeded.
C11_SinkFailureContained ==
    [][ \A w \in workers :
            out' = ErrorLog(w) =>
                /\ workers' = workers \ {w}
                /\ last_alert_time' = last_alert_time
                /\ pc' = pc
                /\ alert_type' = alert_type
                /\ lock' = lock
      ]_vars

\* The voice sink of a firing has raised; the GUI sink of the same firing is
\* running and the firing's timestamp is recorded.
C11_Witness ==
    \E c \in AlertType :
        /\ out = ErrorLog(<< "voice", c >>)
        /\ << "voice", c >> \notin workers
        /\ << "gui", c >> \in workers
        /\ c \in DOMAIN last_alert_time

\* C12: trigger_alert never waits for a sink.  The thread that starts the sink
\* threads does not hold the lock and can always start them and return; a
\* caller that is not waiting for the lock can always take its next step,
\* whatever sink threads are still running; and a running sink thread needs
\* nothing from the arbiter to end.
C12_NeverWaitsForASink ==
    /\ [](\A t \in Threads :
              pc[t] = "start_sinks" => lock # t /\ ENABLED StartSinkThreads(t))
    /\ [](\A t \in Threads :
              (pc[t] # "idle" /\ lock \in {Free, t}) => ENABLED CallerStep(t))
    /\ [](\A w \in workers : ENABLED SinkReturns(w))
    /\ [][ workers' # workers => lock' = lock ]_vars

\* A sink started by the firing at time 0 is still running at MaxTime, and t1
\* is about to start the sinks of a later firing of another category.
C12_Witness ==
    /\ now = MaxTime
    /\ "fatigue" \in DOMAIN last_alert_time
    /\ last_alert_time["fatigue"] = 0
    /\ << "voice", "fatigue" >> \in workers
    /\ pc["t1"] = "start_sinks"
    /\ alert_type["t1"] = "severe"

C14_UnderTheOneLock ==
    /\ [][ \A t \in Threads :
               (\/ pc[t] = "can_alert" /\ pc'[t] # "can_alert"
                \/ pc[t] = "record" /\ pc'[t] # "record"
                \/ pc[t] = "reset" /\ pc'[t] # "reset") => lock = t
         ]_vars
    /\ [][ last_alert_time' # last_alert_time =>
               \E t \in Threads : lock = t /\ pc'[t] # pc[t] /\ lock' = Free
         ]_vars
    /\ [][ lock # Free => (lock' = lock \/ lock' = Free) ]_vars

\* t1 holds the lock to write the timestamp of one category while t2 waits for
\* it to check another category.
C14_Witness ==
    /\ lock = "t1"
    /\ pc["t1"] = "record"
    /\ pc["t2"] = "can_alert"
    /\ alert_type["t1"] # alert_type["t2"]

\* ------------------------------------------------ FatigueAnalyzer properties

\* A step is one update call.
UpdateStep == frames' = frames + 1

\* The frame of this step is closed and the frame before it was open (or there
\* was none).
OpenToClosed == run_start = None /\ run_start' # None

\* The frame of this step is open and ends a run of closed frames.
RunEnds == run_start # None /\ run_start' = None

\* C15: on any update at least 60 s after the start of the current blink
\* accounting period (construction, then the last publish), blinks_per_minute is
\* set to the blink count, blink_counter is reset to 0 and the period restarts at
\* that timestamp; blink events do not move the period start.
C15_PublishEveryPeriod ==
    [][ (UpdateStep /\ timestamp' - period_start >= BlinkPeriod) =>
            /\ blinks_per_minute' = blink_counter + (IF OpenToClosed THEN 1 ELSE 0)
            /\ blink_counter' = 0
            /\ period_start' = timestamp'
      ]_vars

\* C16 as stated: on an update without an open-to-closed transition,
\* blinks_per_minute keeps its value.
C16_StaleForever ==
    [][ (UpdateStep /\ ~OpenToClosed) => blinks_per_minute' = blinks_per_minute
      ]_vars

\* C16, amended: on an update without an open-to-closed transition,
\* blinks_per_minute keeps its value only while the update is no more than 60 s
\* after last_blink_time; on an update later than that it is set to blink_counter
\* (0 once the blinks counted before have been published), the counter is reset
\* and last_blink_time moves to that timestamp.
C16_RepublishedWithoutBlinks ==
    [][ (UpdateStep /\ ~OpenToClosed) =>
            IF timestamp' - last_blink_time > BlinkPeriod
            THEN /\ blinks_per_minute' = blink_counter
                 /\ blink_counter' = 0
                 /\ last_blink_time' = timestamp'
            ELSE /\ blinks_per_minute' = blinks_per_minute
                 /\ blink_counter' = blink_counter
                 /\ last_blink_time' = last_blink_time
      ]_vars

\* An open frame has just published a count of blinks made before it.
C16_Witness ==
    /\ run_start = None
    /\ frames > 0
    /\ period_start = timestamp
    /\ blinks_per_minute > 0
    /\ blink_counter = 0

\* C17 as stated: the open frame that ends a run of closed frames leaves
\* blink_counter exactly 1 above its value before the run.
C17_ExactlyOneInTotal ==
    [][ (UpdateStep /\ RunEnds) => blink_counter' = counter_before_run + 1 ]_vars

\* C17, amended: blink_counter is incremented by 1 on an open-to-closed frame and
\* on no other; on any other frame it keeps its value or is reset to 0 by a
\* publish; and a run whose closing open frame comes no more than 60 s after its
\* first closed frame leaves the counter exactly 1 above its value before the run.
C17_OneIncrementPerRun ==
    [][ UpdateStep =>
            /\ OpenToClosed => blink_counter' = blink_counter + 1
            /\ ~OpenToClosed => blink_counter' \in {blink_counter, 0}
            /\ (RunEnds /\ timestamp' - run_start <= BlinkPeriod)
                   => blink_counter' = counter_before_run + 1
      ]_vars

\* A second run of closed frames has just ended, one blink counted for each.
C17_Witness ==
    /\ run_start = None
    /\ Len(eye_state_history) >= 3
    /\ eye_state_history[Len(eye_state_history)] = 0
    /\ eye_state_history[Len(eye_state_history) - 1] = 1
    /\ eye_state_history[Len(eye_state_history) - 2] = 1
    /\ counter_before_run = 1
    /\ blink_counter = 2

\* C18: eye_state_history never holds more than the window capacity, each update
\* appends its frame behind the others and evicts the oldest entry of a full
\* window, and perclos_value is the number of closed entries over the number of
\* entries, between 0 and 1.
C18_WindowAndRatio ==
    /\ [](/\ Len(eye_state_history) <= WindowCapacity
          /\ Len(eye_state_history) > 0 =>
                 perclos_value.num * Len(eye_state_history)
                     = Sum(eye_state_history) * perclos_value.den
          /\ perclos_value.den > 0
          /\ 0 <= perclos_value.num
          /\ perclos_value.num <= perclos_value.den)
    /\ [][ UpdateStep =>
             LET bit  == IF avg_ear' < EarThreshold THEN 1 ELSE 0
                 kept == IF Len(eye_state_history) < WindowCapacity
                         THEN eye_state_history
                         ELSE SubSeq(eye_state_history, 2, WindowCapacity)
             IN  eye_state_history' = kept \o << bit >>
         ]_vars

\* The window is full, has evicted, and holds both closed and open entries.
C18_Witness ==
    /\ frames > WindowCapacity
    /\ Len(eye_state_history) = WindowCapacity
    /\ Sum(eye_state_history) > 0
    /\ Sum(eye_state_history) < WindowCapacity

\* C19: for an even capacity W, a fresh analyzer fed exactly W frames, half of
\* them closed, has perclos_value exactly 1/2, and perclos_value stays 1/2 on every
\* update whose frame has the state of the entry it evicts.
C19_HalfWindow ==
    /\ []((/\ WindowCapacity % 2 = 0
           /\ frames = WindowCapacity
           /\ 2 * Sum(eye_state_history) = WindowCapacity)
          => 2 * perclos_value.num = perclos_value.den)
    /\ [][ (/\ UpdateStep
            /\ Len(eye_state_history) = WindowCapacity
            /\ 2 * perclos_value.num = perclos_value.den
            /\ (IF avg_ear' < EarThreshold THEN 1 ELSE 0) = Head(eye_state_history))
           => 2 * perclos_value'.num = perclos_value'.den
         ]_vars

\* One frame after the window filled half closed, perclos_value is still 1/2.
C19_Witness ==
    /\ frames = WindowCapacity + 1
    /\ 2 * Sum(eye_state_history) = WindowCapacity
    /\ 2 * perclos_value.num = perclos_value.den

\* C20: after an update inside a run of closed frames, is_drowsy is true exactly
\* when the update's timestamp is more than closed_eye_duration after the
\* timestamp of the first closed frame of the run.
C20_DrowsyStrictlyAfter ==
    run_start # None =>
        (is_drowsy <=> timestamp - run_start > ClosedEyeDuration)

\* A closure one second longer than closed_eye_duration is drowsy.
C20_Witness ==
    /\ run_start # None
    /\ timestamp - run_start = ClosedEyeDuration + 1
    /\ is_drowsy

\* The frame of this step is open.
OpenFrame == UpdateStep /\ avg_ear' >= EarThreshold

\* C21: an open frame unsets eye_closed_start, zeroes eye_closed_duration and
\* clears is_drowsy in that one update; is_drowsy implies that the last frame was
\* closed and eye_closed_start is set; and the first frame of a closure starts the
\* timer at that frame with duration 0.
C21_OpenFrameClearsTimer ==
    /\ [](is_drowsy => (run_start # None /\ eye_closed_start # None))
    /\ [][ OpenFrame =>
             /\ eye_closed_start' = None
             /\ eye_closed_duration' = 0
             /\ is_drowsy' = FALSE
         ]_vars
    /\ [][ (UpdateStep /\ OpenToClosed) =>
             /\ eye_closed_start' = timestamp'
             /\ eye_closed_duration' = 0
             /\ is_drowsy' = FALSE
         ]_vars

\* A closure, an open frame, and the first frame of a new closure, counting from 0.
C21_Witness ==
    /\ Len(eye_state_history) >= 3
    /\ eye_state_history[Len(eye_state_history)] = 1
    /\ eye_state_history[Len(eye_state_history) - 1] = 0
    /\ eye_state_history[Len(eye_state_history) - 2] = 1
    /\ eye_closed_start = timestamp
    /\ eye_closed_duration = 0
    /\ ~is_drowsy

\* C22: after every update fatigue_level is the first matching rule on the state
\* just updated: 3 if perclos > 0.20 or is_drowsy; else 2 if perclos >
\* perclos_threshold or eye_closed_duration > 1.0; else 1 if perclos > 0.10 or
\* blinks_per_minute is outside [blink_min, blink_max]; else 0.
C22_FirstMatchingRule ==
    frames > 0 =>
        /\ fatigue_level \in 0 .. 3
        /\ fatigue_level =
             IF perclos_value.num * 100 > SeverePerclos * perclos_value.den
                \/ is_drowsy
             THEN 3
             ELSE IF perclos_value.num * 100 > PerclosThreshold * perclos_value.den
                     \/ eye_closed_duration > ShortClosure
             THEN 2
             ELSE IF perclos_value.num * 100 > MildPerclos * perclos_value.den
                     \/ blinks_per_minute < BlinkMin
                     \/ blinks_per_minute > BlinkMax
             THEN 1
             ELSE 0

\* perclos is 0.25 and is_drowsy is false: the level is 3.
C22_Witness ==
    /\ frames > 0
    /\ perclos_value.num * 4 = perclos_value.den
    /\ ~is_drowsy
    /\ fatigue_level = 3

\* C23: a frame with a degenerate EAR of 0 for an eye is taken as unavailable: it
\* adds no closed entry to eye_state_history, does not increment blink_counter and
\* neither starts nor advances the closed-eye timer.
C23_DegenerateEarIgnored ==
    [][ (UpdateStep /\ (left_ear' = 0 \/ right_ear' = 0)) =>
            /\ \/ eye_state_history' = eye_state_history
               \/ eye_state_history'[Len(eye_state_history')] = 0
            /\ blink_counter' <= blink_counter
            /\ eye_closed_start' \in {eye_closed_start, None}
            /\ eye_closed_duration' <= eye_closed_duration
      ]_vars

\* C24: after every DistanceMonitor.update that leaves the history non-empty,
\* the published current_distance is the arithmetic mean of the samples in the
\* history, also when the raw sample of the update was the invalid value 0.
C24_PublishedIsMean ==
    distance_history # << >> =>
        current_distance.num * Len(distance_history)
            = Sum(distance_history) * current_distance.den

\* a DistanceMonitor.update call
DistanceStep == distance_frames' = distance_frames + 1

\* the last n elements of a sequence
LastN(h, n) == IF Len(h) <= n THEN h ELSE SubSeq(h, Len(h) - n + 1, Len(h))

\* C25: distance_history holds at most 10 samples, each strictly greater than 0,
\* and they are the most recent valid samples in arrival order: a valid sample
\* goes to the end and the oldest leaves when an 11th arrives, an invalid sample
\* changes nothing.
C25_RecentValidSamples ==
    /\ [](/\ Len(distance_history) <= 10
          /\ \A i \in 1 .. Len(distance_history) : distance_history[i] > 0)
    /\ [][ DistanceStep =>
             /\ distance' > 0 =>
                    /\ distance_history'
                           = LastN(distance_history \o << distance' >>, 10)
                    /\ evicted' # None =>
                           /\ Len(distance_history) = 10
                           /\ evicted' = distance_history[1]
             /\ ~(distance' > 0) => distance_history' = distance_history
         ]_vars

\* An 11th valid sample has arrived and the oldest one, which differs from the
\* ten that stay, has left.
C25_Witness ==
    /\ evicted # None
    /\ Len(distance_history) = 10
    /\ \A i \in 1 .. 10 : distance_history[i] # evicted

\* C26: is_too_close is true exactly when 0 < current_distance <
\* warning_distance has held on every update since too_close_start was set and
\* timestamp - too_close_start >= warning_duration; an update on which the
\* condition is false leaves too_close_start unset, the duration 0 and the flag
\* false; so is_too_close implies a set start and a duration of at least
\* warning_duration.
C26_TooCloseTimer ==
    /\ too_close_start = close_since
    /\ is_too_close <=>
           /\ close_since # None
           /\ distance_timestamp - close_since >= DistanceWarningDuration
    /\ ~(current_distance.num > 0
         /\ current_distance.num < WarningDistance * current_distance.den) =>
           /\ too_close_start = None
           /\ too_close_duration = 0
           /\ ~is_too_close
    /\ is_too_close =>
           /\ too_close_start # None
           /\ too_close_duration >= DistanceWarningDuration

\* The flag is up on the update that reaches warning_duration, after an earlier
\* far update had reset the timer.
C26_Witness ==
    /\ is_too_close
    /\ too_close_duration = DistanceWarningDuration
    /\ too_close_start > 1
    /\ distance_history[1] > WarningDistance

\* C30: with the known eye distance 6.3 cm and the focal length 600 px, an
\* eye-centre distance of 60 px gives exactly 63.0 cm, and a history holding only
\* that sample publishes 63.0; in general the result is known_eye_distance *
\* focal_length / pixel_distance, and 0 when the pixel distance is 0.
C30_EyeDistanceExact ==
    [][ (DistanceStep /\ measured_eye_pixels' # None) =>
          /\ measured_eye_pixels' = 60 =>
                 /\ distance' = 630
                 /\ distance_history = << >> =>
                        /\ distance_history' = << 630 >>
                        /\ current_distance'.num = 630 * current_distance'.den
          /\ measured_eye_pixels' = 0 => distance' = 0
          /\ measured_eye_pixels' # 0 =>
                 distance' * measured_eye_pixels' = 63 * 600
      ]_vars

\* The first update measured 60 px between the eye centres.
C30_Witness ==
    /\ measured_eye_pixels = 60
    /\ distance_history = << 630 >>
    /\ current_distance = [num |-> 630, den |-> 1]

\* a PostureMonitor.update call
PostureStep == posture_frames' = posture_frames + 1

\* C27: an update whose head-pose solve fails leaves pitch, yaw, roll,
\* bad_posture_start and bad_posture_duration as they were and reports "Unknown"
\* for that frame only; when the next solved frame is still non-Normal its
\* duration is measured from the bad_posture_start the failed frame found.
C27_FailedSolveKeepsTimer ==
    /\ [][ (PostureStep /\ ~solved') =>
             /\ pitch' = pitch
             /\ yaw' = yaw
             /\ roll' = roll
             /\ bad_posture_start' = bad_posture_start
             /\ bad_posture_duration' = bad_posture_duration
             /\ posture_type' = "Unknown"
         ]_vars
    /\ [][ (PostureStep /\ solved') =>
             /\ posture_type' # "Unknown"
             /\ (~solved /\ bad_posture_start # None /\ posture_type' # "Normal") =>
                    /\ bad_posture_start' = bad_posture_start
                    /\ bad_posture_duration'
                           = posture_timestamp' - bad_posture_start
         ]_vars

\* A frame that could not be solved, in the middle of a violation that has
\* already lasted warning_duration.
C27_Witness ==
    /\ ~solved
    /\ posture_frames > 0
    /\ posture_type = "Unknown"
    /\ bad_posture_start # None
    /\ bad_posture_duration >= PostureWarningDuration

\* C28: a solved frame is "Head Down" when pitch > pitch_threshold_down, "Head
\* Up" when pitch < pitch_threshold_up, and "Normal" otherwise; is_bad_posture is
\* true exactly when every solved frame since bad_posture_start was non-Normal
\* and timestamp - bad_posture_start >= warning_duration, a change from Head Down
\* to Head Up keeps the start, and a Normal frame unsets the start, zeroes the
\* duration and clears the flag.
C28_PostureTimer ==
    /\ [](/\ bad_posture_start = bad_since
          /\ solved =>
               /\ posture_type = (IF pitch > 12 THEN "Head Down"
                                  ELSE IF pitch < -8 THEN "Head Up"
                                  ELSE "Normal")
               /\ is_bad_posture <=>
                      /\ bad_since # None
                      /\ posture_timestamp - bad_since >= PostureWarningDuration
               /\ posture_type = "Normal" =>
                      /\ bad_posture_start = None
                      /\ bad_posture_duration = 0
                      /\ ~is_bad_posture)
    /\ [][ (/\ PostureStep
            /\ solved'
            /\ bad_posture_start # None
            /\ posture_type' \in {"Head Down", "Head Up"}) =>
               bad_posture_start' = bad_posture_start
         ]_vars

\* The head is up, on the pitch just below the threshold, and has been out of
\* the normal range for exactly warning_duration.
C28_Witness ==
    /\ solved
    /\ pitch = -9
    /\ posture_type = "Head Up"
    /\ is_bad_posture
    /\ bad_posture_duration = PostureWarningDuration

\* what the thresholds of a file must satisfy to make sense
ValidThresholds(file) ==
    /\ \A k \in ConfigKeys : k \in DOMAIN file
    /\ file["cooldown_time"] >= 0
    /\ file["warning_duration"] >= 0
    /\ file["perclos_window"] > 0
    /\ file["blink_min"] <= file["blink_max"]
    /\ file["pitch_threshold_up"] <= file["pitch_threshold_down"]

\* C29: construction with a missing or an invalid threshold fails at once; no
\* constructed system, and none in its frame loop, holds an invalid threshold.
C29_InvalidThresholdNeverRuns ==
    phase \in {"constructed", "processing"} => ValidThresholds(yaml)

\* This update published blinks_per_minute: the accounting period restarted.
Published == UpdateStep /\ period_start' # period_start

CooldownOver(c) ==
    c \in DOMAIN last_alert_time => now - last_alert_time[c] >= Cooldown

\* C33: in a cycle whose fatigue_level is 3 no distance or posture alert is
\* dispatched and neither cooldown is started, whatever is_too_close and
\* is_bad_posture say and although their cooldowns are over; this holds as well
\* when the severe-fatigue call itself is dropped by its cooldown, which ends the
\* cycle with nothing dispatched by the manager.  A distance or posture alert is
\* dispatched only in a cycle with fatigue_level < 3.
C33_SevereStarvesTheOthers ==
    [][ LET t  == PipelineThread
            st == status[t]
        IN
        /\ (\E e \in out' : e[2] \in {"distance", "posture"})
               => (pc[t] # "idle" /\ st.fatigue_level < 3)
        /\ (\E e \in ManagerOut(out') : e[2] \in {"distance", "posture"})
               => RecordStep(t)
        /\ (pc[t] # "idle" /\ st.fatigue_level = 3) =>
               /\ \A c \in {"distance", "posture"} :
                      /\ c \in DOMAIN last_alert_time'
                             <=> c \in DOMAIN last_alert_time
                      /\ c \in DOMAIN last_alert_time
                             => last_alert_time'[c] = last_alert_time[c]
               /\ (CheckStep(t) /\ InCooldown(t)) =>
                      /\ pc'[t] = "idle"
                      /\ ManagerOut(out') = {}
                      /\ last_alert_time' = last_alert_time
      ]_vars

\* A second severe-fatigue cycle in a row is about to be dropped by the cooldown
\* the first one started, while too close and in a bad posture, neither of which
\* has a cooldown running.
C33_Witness ==
    /\ status[PipelineThread] = [fatigue_level |-> 3, is_too_close |-> TRUE,
                                 is_bad_posture |-> TRUE]
    /\ pc[PipelineThread] = "can_alert"
    /\ alert_type[PipelineThread] = "severe"
    /\ InCooldown(PipelineThread)
    /\ DOMAIN last_alert_time = {"severe"}
    /\ CooldownOver("distance")
    /\ CooldownOver("posture")

\* C34: an update whose raw sample is 0 publishes current_distance = 0, unsets
\* too_close_start, zeroes too_close_duration and clears is_too_close, and leaves
\* distance_history as it was; the next update that is too close starts the
\* timer from 0 at its own timestamp, so the duration accumulated before is lost.
C34_InvalidSampleResetsTimer ==
    /\ [][ (DistanceStep /\ distance' = 0) =>
             /\ current_distance'.num = 0
             /\ too_close_start' = None
             /\ too_close_duration' = 0
             /\ ~is_too_close'
             /\ distance_history' = distance_history
         ]_vars
    /\ [][ (/\ DistanceStep
            /\ distance_frames > 0
            /\ distance = 0
            /\ current_distance'.num > 0
            /\ current_distance'.num < WarningDistance * current_distance'.den) =>
             /\ too_close_start' = distance_timestamp'
             /\ too_close_duration' = 0
             /\ ~is_too_close'
         ]_vars

\* Every valid sample so far was too close, three or more of them, the latest
\* in this update, and yet the timer starts at this update: an invalid sample in
\* between has reset it.
C34_Witness ==
    /\ Len(distance_history) >= 3
    /\ \A i \in 1 .. Len(distance_history) : distance_history[i] < WarningDistance
    /\ distance > 0
    /\ distance_timestamp > DistanceWarningDuration + 1
    /\ too_close_start = distance_timestamp
    /\ too_close_duration = 0
    /\ ~is_too_close

\* C39: update chooses the method by the inputs that are present.  With
\* use_eye_distance true and both eye landmark sets given, the raw sample is the
\* eye-distance result, 0 included, and the face-width method is not called on
\* that frame; the face-width method is called only without eye landmarks or
\* with use_eye_distance false, and only with face_box_width > 0; with neither
\* method the raw sample is 0.
C39_MethodByInputsPresent ==
    [][ DistanceStep =>
          /\ measured_eye_pixels' # None =>
                 /\ measured_face_width' = None
                 /\ distance' = (IF measured_eye_pixels' = 0 THEN 0
                                 ELSE (63 * 600) \div measured_eye_pixels')
          /\ measured_face_width' # None =>
                 /\ measured_eye_pixels' = None
                 /\ measured_face_width' > 0
                 /\ distance' = (145 * 600) \div measured_face_width'
          /\ (measured_eye_pixels' = None /\ measured_face_width' = None) =>
                 distance' = 0
      ]_vars

\* The eye centres coincide on a frame that follows one measured by the face
\* width: the raw sample is 0 and the face-width method has not run.
C39_Witness ==
    /\ measured_eye_pixels = 0
    /\ measured_face_width = None
    /\ distance = 0
    /\ distance_history = << 300 >>
    /\ distance_frames = 2

\* C37: after every FatigueAnalyzer.update the indicators of the closure state
\* machine agree: is_blinking is true exactly when eye_closed_start is set, and
\* exactly when the frame just processed was closed, avg_ear < ear_threshold,
\* which is the is_closed get_status reports.
C37_ClosureIndicatorsAgree ==
    frames > 0 =>
        /\ is_blinking <=> eye_closed_start # None
        /\ is_blinking <=> avg_ear < 25
        /\ eye_closed_start # None <=> avg_ear < 25

\* An open frame after a run of two closed frames: all three indicators are down
\* again.
C37_Witness ==
    /\ Len(eye_state_history) >= 3
    /\ eye_state_history[Len(eye_state_history)] = 0
    /\ eye_state_history[Len(eye_state_history) - 1] = 1
    /\ eye_state_history[Len(eye_state_history) - 2] = 1
    /\ ~is_blinking
    /\ eye_closed_start = None
    /\ avg_ear >= 25
    /\ left_ear # right_ear

\* C38: trigger_alert records the firing time whenever the cooldown check has
\* passed, whether or not it has a sink to start: with no sink registered or
\* enabled the cooldown of the category starts although nothing is delivered, and
\* a sink registered afterwards is started for that category only once
\* cooldown_time has passed since that record.
C38_CooldownStartsWithoutSinks ==
    [][ LET t == PipelineThread
            c == alert_type[t]
        IN
        /\ RecordStep(t) =>
               /\ c \in DOMAIN last_alert_time'
               /\ last_alert_time'[c] = now
               /\ (~(enable_voice /\ voice_alert) /\ ~gui_alert)
                      => ManagerOut(out') = {}
        /\ \A e \in ManagerOut(out') :
               /\ RecordStep(t)
               /\ e[2] = c
               /\ c \in DOMAIN last_alert_time
                      => now - last_alert_time[c] >= Cooldown
      ]_vars

\* A call is about to be dropped by a cooldown that was started before
\* trigger_alert had any sink to start; the GUI sink is registered by now.
C38_Witness ==
    /\ gui_alert
    /\ first_sink_time # None
    /\ pc[PipelineThread] = "can_alert"
    /\ InCooldown(PipelineThread)
    /\ last_alert_time[alert_type[PipelineThread]] < first_sink_time

\* A frame of the loop with a face: the three trackers are updated together.
FaceStep == frame_counter' = frame_counter + 1 /\ frames' = frames + 1

\* The pipeline thread is inside the alert cycle of the first face frame.
FirstCycle == frames = 1 /\ pc[PipelineThread] # "idle"

\* The first face frame starts a fatigue or severe-fatigue call while the
\* cooldown map is still empty.
FirstFrameCalls ==
    (FaceStep /\ frames = 0)
        => /\ pc'[PipelineThread] = "call"
           /\ alert_type'[PipelineThread] \in {"fatigue", "severe"}
           /\ DOMAIN last_alert_time' = {}

\* The fatigue call of the first cycle passes can_alert.
FirstCallPasses ==
    (/\ CheckStep(PipelineThread)
     /\ FirstCycle
     /\ alert_type[PipelineThread] \in {"fatigue", "severe"})
        => PassStep(PipelineThread)

\* The fatigue call of the first cycle records its time and starts a sink.
FirstCallDispatches ==
    (/\ RecordStep(PipelineThread)
     /\ FirstCycle
     /\ alert_type[PipelineThread] \in {"fatigue", "severe"})
        => /\ alert_type[PipelineThread] \in DOMAIN last_alert_time'
           /\ last_alert_time'[alert_type[PipelineThread]] = now
           /\ ManagerOut(out') = StartSinks(alert_type[PipelineThread])
           /\ ManagerOut(out') # {}

AfterFailedSolve == posture_frames > 0 /\ ~solved

\* A face frame whose head pose is not solved lowers the flag and keeps the timer.
FailedSolveLowersFlag ==
    (FaceStep /\ ~solved')
        => /\ ~is_bad_posture'
           /\ bad_posture_start' = bad_posture_start
           /\ bad_posture_duration' = bad_posture_duration
           /\ pc'[PipelineThread] # "idle" => ~status'[PipelineThread].is_bad_posture
           /\ alert_type'[PipelineThread] # "posture"

\* No step of the cycle of such a frame makes or dispatches a posture call.
FailedSolveCycleHasNoPostureCall ==
    (AfterFailedSolve /\ ~FaceStep)
        => /\ alert_type'[PipelineThread] # "posture"
           /\ \A e \in out' : e[2] # "posture"

\* The first solved frame after it that is not Normal raises the flag at once
\* when the time since bad_posture_start has reached warning_duration.
SolvedFrameRaisesFlagAgain ==
    (/\ FaceStep
     /\ AfterFailedSolve
     /\ solved'
     /\ posture_type' # "Normal"
     /\ bad_posture_start # None
     /\ now - bad_posture_start >= PostureWarningDuration)
        => /\ is_bad_posture'
           /\ bad_posture_start' = bad_posture_start
           /\ status'[PipelineThread].is_bad_posture

\* C35: a frame whose head-pose solve fails sets is_bad_posture to False
\* whatever bad_posture_duration has reached, and keeps the timer, so the cycle
\* of that frame makes no posture call; the next solved frame that is not
\* Normal raises the flag again at once, its duration counted from the start
\* the timer kept.
C35_FailedSolveSuspendsPostureFlag ==
    [][/\ FailedSolveLowersFlag
       /\ FailedSolveCycleHasNoPostureCall
       /\ SolvedFrameRaisesFlagAgain]_vars

\* A frame that could not be solved, after the bad posture had already lasted
\* warning_duration: the flag is down and the timer is kept.
C35_Witness ==
    /\ AfterFailedSolve
    /\ ~is_bad_posture
    /\ bad_posture_start # None
    /\ bad_posture_duration >= PostureWarningDuration
    /\ "posture" \in DOMAIN last_alert_time

\* A frame of the loop without a face.
NoFaceStep == frame_counter' = frame_counter + 1 /\ frames' = frames

\* A frame without a face touches no tracker and no cooldown record and makes
\* no trigger_alert call.
NoFaceFrameTouchesNothing ==
    NoFaceStep
        => /\ UNCHANGED << analyzer, distance_monitor, posture_monitor >>
           /\ UNCHANGED << last_alert_time, pc, status, alert_type >>
           /\ pc[PipelineThread] = "idle"
           /\ out' = {}

\* A face frame that still shows the condition measures it from the start the
\* timer kept, the frames without a face in between included.
FaceFrameCountsTheGap ==
    FaceStep
        => /\ (eye_closed_start # None /\ IsClosed(avg_ear'))
               => /\ eye_closed_start' = eye_closed_start
                  /\ eye_closed_duration' = now - eye_closed_start
           /\ (too_close_start # None /\ too_close_start' # None)
               => /\ too_close_start' = too_close_start
                  /\ too_close_duration' = now - too_close_start
           /\ (bad_posture_start # None /\ solved' /\ posture_type' # "Normal")
               => /\ bad_posture_start' = bad_posture_start
                  /\ bad_posture_duration' = now - bad_posture_start

\* C36: a frame in which no face is detected leaves the trackers' state and
\* last_alert_time unchanged and makes no trigger_alert call; the timer starts
\* persist, so the first face frame after the gap measures the closed-eye, the
\* too-close and the bad-posture durations from the start before the gap.
C36_NoFaceFramesKeepTheTimers ==
    [][NoFaceFrameTouchesNothing /\ FaceFrameCountsTheGap]_vars

\* A face frame right after a frame without a face, with the three conditions
\* started before the gap: the three durations span the gap.
C36_Witness ==
    /\ detected_history = << FALSE, TRUE >>
    /\ frames >= 2
    /\ eye_closed_start = 0
    /\ too_close_start = 0
    /\ bad_posture_start = 0
    /\ eye_closed_duration = MaxTime
    /\ too_close_duration = MaxTime
    /\ bad_posture_duration = MaxTime
====
